---- MODULE Spec2Model ----
(***************************************************************************)
(* Verification model of the pseudocode interpreter's core:                *)
(*   - MemoryEngine (src/src/interpreter/memory.ts): the simulated arena   *)
(*   - the pointer path of the front end and evaluator                     *)
(*     (src/src/interpreter/types.ts, src/src/interpreter/interpreter.ts)  *)
(***************************************************************************)
EXTENDS Integers, Sequences, FiniteSets, TLC

(***************************************************************************)
(* Bounds and program constants                                            *)
(***************************************************************************)
SYSTEM_RESERVED == 1024

\* number of slots of the arena above the reserved region
ArenaSlots == 3

\* largest size passed to allocate
MaxAllocSize == 2

\* stored values are 0..MaxValue
MaxValue == 1

\* number of statement lines after the declarations of a program
MaxBody == 4

\* constructor argument `size` of MemoryEngine
memorySize == SYSTEM_RESERVED + ArenaSlots

\* JavaScript `undefined` in a ram slot / as a return value
Undefined == -1

Values == 0..MaxValue

\* type tags passed to allocate; the tag is stored in the record and never read
\* by allocate, free, read or write
TypeTags == {"INTEGER"}

\* sizes tried by allocate (0 is the non-positive case)
AllocSizes == 0..MaxAllocSize

\* addresses tried by free / read / write: below zero, the top of the reserved
\* region, the whole arena, and the first address past its end
Addresses == {-1, SYSTEM_RESERVED - 1} \cup (SYSTEM_RESERVED..memorySize)

Max2(a, b) == IF a >= b THEN a ELSE b

SetMax(S) == CHOOSE x \in S : \A y \in S : y <= x

SetMin(S) == CHOOSE x \in S : \A y \in S : x <= y

VARIABLES
    ram,              \* MemoryEngine.ram, sparse: the slots holding a value other than undefined
    allocated,        \* MemoryEngine.allocated: Set<number>
    allocations,      \* MemoryEngine.allocations: Map<number, {size, type}>
    nextFreeAddress,  \* MemoryEngine.nextFreeAddress
    lastOp,           \* the last MemoryEngine call: its arguments and its outcome
    holes,            \* addresses of blocks freed while a higher block was live
    source,           \* program text, one record per physical line
    ast,              \* statements produced by Parser.parse
    pc,               \* index of the next statement of ast to execute
    phase,            \* "idle" | "parse" | "run" | "done" | "syntaxError" | "runtimeError"
    error,            \* message of the Error / RuntimeError that ended the run
    variables,        \* Interpreter.globalContext.variables
    cells,            \* every Variable object created so far, by identity
    contexts,         \* ExecutionContext.variables of globalContext (index 1) and of each active call
    frames,           \* the interpreter's position: the active blocks, loops and calls
    iterationCount,   \* Interpreter.iterationCount
    recursionDepth,   \* Interpreter.recursionDepth
    callStack,        \* Interpreter.callStack
    yielded,          \* the strings the generator has yielded
    executed,         \* number of statements dispatched so far, saturating at MaxExecuted
    at,               \* where executeNode stands: "dispatch" | "step" | "switch" | "input" | "upload"
    debugMode,        \* Interpreter.debugMode, with the step callback of App.handleDebug
    stopped,          \* App.handleDebugStop was called for this run
    fileHandles,      \* Interpreter.fileHandles: Map<string, FileHandle>
    fileWriteOutput,  \* Interpreter.fileWriteOutput
    traceLog,         \* MemoryTracer.traceLog
    stepCounter,      \* MemoryTracer.stepCounter
    manager,          \* the MemoryStateManager: traceLog, variables, stateCache, maxCacheSize
    front,            \* tokenize and parse of a program text: code, i, line, column, tokens, ...
    lastState         \* the frame last asked of getStateAtFrame and the snapshot it returned

memVars == <<ram, allocated, allocations, nextFreeAddress, lastOp, holes>>

progVars == <<source, ast, pc, phase, error, variables>>

runVars == <<cells, contexts, frames, iterationCount, recursionDepth, callStack, yielded,
             executed, at, debugMode, stopped, fileHandles, fileWriteOutput, traceLog,
             stepCounter, manager, front, lastState>>

vars == <<ram, allocated, allocations, nextFreeAddress, lastOp, holes,
          source, ast, pc, phase, error, variables,
          cells, contexts, frames, iterationCount, recursionDepth, callStack, yielded,
          executed, at, debugMode, stopped, fileHandles, fileWriteOutput, traceLog,
          stepCounter, manager, front, lastState>>

(***************************************************************************)
(* MemoryEngine                                                            *)
(***************************************************************************)
EmptyMap == [a \in {} |-> Undefined]

\* no program text has been handed to tokenize
NoFront ==
    [code |-> <<>>, i |-> 0, line |-> 1, column |-> 1, tokens |-> <<>>, stage |-> "idle",
     ast |-> <<>>, thrown |-> <<>>]

\* no MemoryStateManager has been constructed
NoManager ==
    [traceLog |-> <<>>, variables |-> EmptyMap, stateCache |-> EmptyMap, maxCacheSize |-> 0,
     shared |-> FALSE]

RamAt(address) == IF address \in DOMAIN ram THEN ram[address] ELSE Undefined

BlockRange(address, size) == address..(address + size - 1)

NoOp == [op |-> "none", address |-> 0, size |-> 0, value |-> Undefined,
         err |-> "none", ret |-> Undefined]

Op(op, address, size, value, err, ret) ==
    [op |-> op, address |-> address, size |-> size, value |-> value,
     err |-> err, ret |-> ret]

\* findFreeBlock: the scan from a start address; NoBlock when the loop exits
NoBlock == -1

\* variant: loop guard `address + size < memorySize`
RECURSIVE ScanFromStrict(_, _)
ScanFromStrict(address, size) ==
    IF address + size < memorySize
    THEN LET hit == {i \in 0..(size - 1) : (address + i) \in allocated}
         IN  IF hit = {} THEN address
             ELSE ScanFromStrict(address + SetMin(hit) + 1, size)
    ELSE NoBlock

RECURSIVE ScanFrom(_, _)
ScanFrom(address, size) ==
    IF address + size <= memorySize
    THEN LET hit == {i \in 0..(size - 1) : (address + i) \in allocated}
         IN  IF hit = {} THEN address
             ELSE ScanFrom(address + SetMin(hit) + 1, size)
    ELSE NoBlock

\* variant: the scan starts at the reserved boundary instead of the watermark
findFreeBlockFromReserved(size) == ScanFrom(SYSTEM_RESERVED, size)

findFreeBlock(size) == ScanFrom(nextFreeAddress, size)

\* variant: the marking loop stops one slot early
markAllocatedShort(address, size, type) ==
    [allocated |-> allocated \cup BlockRange(address, size - 1),
     allocations |-> [a \in DOMAIN allocations \cup {address} |->
                        IF a = address THEN [size |-> size, type |-> type]
                        ELSE allocations[a]],
     nextFreeAddress |-> Max2(nextFreeAddress, address + size)]

\* markAllocated: the new allocated set, table and watermark
markAllocated(address, size, type) ==
    [allocated |-> allocated \cup BlockRange(address, size),
     allocations |-> [a \in DOMAIN allocations \cup {address} |->
                        IF a = address THEN [size |-> size, type |-> type]
                        ELSE allocations[a]],
     nextFreeAddress |-> Max2(nextFreeAddress, address + size)]

\* variant: the maximum is taken over start addresses, not end addresses
recalculateFromStarts(table) ==
    SetMax({SYSTEM_RESERVED} \cup DOMAIN table)

\* variant: maxEnd starts at 0 instead of SYSTEM_RESERVED
recalculateFromZero(table) ==
    SetMax({0} \cup {a + table[a].size : a \in DOMAIN table})

\* recalculateNextFreeAddress over a given allocation table
recalculateNextFreeAddress(table) ==
    SetMax({SYSTEM_RESERVED} \cup {a + table[a].size : a \in DOMAIN table})

\* variant: free recomputes the watermark only when the block ends above it
freeRecalculatesAbove(address, size) == address + size > nextFreeAddress

\* the condition under which free recomputes the watermark
freeRecalculates(address, size) == address + size >= nextFreeAddress

\* variant: the clearing loop starts at i = 1
freeClearedFromOne(address, size) == {address + i : i \in 1..(size - 1)}

\* the slots whose allocated mark and value free clears
freeCleared(address, size) == {address + i : i \in 0..(size - 1)}

\* variant: free resolves interior addresses the way getAllocation does
freeLookupInterior(address) ==
    {s \in DOMAIN allocations : address \in BlockRange(s, allocations[s].size)}

\* the allocation record free looks up (Undefined-like: no record)
freeLookup(address) ==
    IF address \in DOMAIN allocations THEN {address} ELSE {}

\* read: the error raised, or the value returned
ReadResult(address) ==
    IF address < 0 \/ address >= memorySize
    THEN [err |-> "out of bounds", ret |-> Undefined]
    ELSE IF address \notin allocated
         THEN [err |-> "not allocated", ret |-> Undefined]
         ELSE [err |-> "none", ret |-> RamAt(address)]

\* variant: bounds check `address > memorySize`
WriteErrorOffByOne(address) ==
    IF address < 0 \/ address > memorySize THEN "out of bounds"
    ELSE IF address \notin allocated THEN "not allocated"
    ELSE "none"

\* write: the error raised, if any
WriteError(address) ==
    IF address < 0 \/ address >= memorySize THEN "out of bounds"
    ELSE IF address \notin allocated THEN "not allocated"
    ELSE "none"

\* variant: the value is stored one slot too high
WriteStoreNext(address, value) ==
    [a \in DOMAIN ram \cup {address + 1} |-> IF a = address + 1 THEN value ELSE ram[a]]

\* write: the slot array after this.ram[address] = value
WriteStore(address, value) ==
    [a \in DOMAIN ram \cup {address} |-> IF a = address THEN value ELSE ram[a]]

MemInit ==
    /\ ram = EmptyMap
    /\ allocated = {}
    /\ allocations = EmptyMap
    /\ nextFreeAddress = SYSTEM_RESERVED
    /\ lastOp = NoOp
    /\ holes = {}

Allocate(size, type) ==
    IF size <= 0
    THEN /\ lastOp' = Op("allocate", 0, size, Undefined, "size must be positive", Undefined)
         /\ UNCHANGED <<ram, allocated, allocations, nextFreeAddress, holes>>
    ELSE LET address == findFreeBlock(size)
         IN  IF address = NoBlock
             THEN /\ lastOp' = Op("allocate", 0, size, Undefined,
                                  "cannot find contiguous block", Undefined)
                  /\ UNCHANGED <<ram, allocated, allocations, nextFreeAddress, holes>>
             ELSE LET m == markAllocated(address, size, type)
                  IN  /\ allocated' = m.allocated
                      /\ allocations' = m.allocations
                      /\ nextFreeAddress' = m.nextFreeAddress
                      /\ lastOp' = Op("allocate", 0, size, Undefined, "none", address)
                      /\ UNCHANGED <<ram, holes>>

Free(address) ==
    IF freeLookup(address) = {}
    THEN /\ lastOp' = Op("free", address, 0, Undefined, "Invalid free", Undefined)
         /\ UNCHANGED <<ram, allocated, allocations, nextFreeAddress, holes>>
    ELSE LET start == CHOOSE a \in freeLookup(address) : TRUE
             size == allocations[start].size
             cleared == freeCleared(address, size)
             table == [a \in DOMAIN allocations \ {address} |-> allocations[a]]
         IN  /\ allocated' = allocated \ cleared
             /\ ram' = [a \in DOMAIN ram \ cleared |-> ram[a]]
             /\ allocations' = table
             /\ nextFreeAddress' = IF freeRecalculates(address, size)
                                   THEN recalculateNextFreeAddress(table)
                                   ELSE nextFreeAddress
             /\ holes' = IF \E a \in DOMAIN allocations : a > start
                         THEN holes \cup BlockRange(start, size)
                         ELSE holes
             /\ lastOp' = Op("free", address, size, Undefined, "none", Undefined)

Read(address) ==
    LET r == ReadResult(address)
    IN  /\ lastOp' = Op("read", address, 0, Undefined, r.err, r.ret)
        /\ UNCHANGED <<ram, allocated, allocations, nextFreeAddress, holes>>

Write(address, value) ==
    LET e == WriteError(address)
    IN  /\ lastOp' = Op("write", address, 0, value, e, Undefined)
        /\ ram' = IF e = "none" THEN WriteStore(address, value) ELSE ram
        /\ UNCHANGED <<allocated, allocations, nextFreeAddress, holes>>

Reset ==
    /\ ram' = EmptyMap
    /\ allocated' = {}
    /\ allocations' = EmptyMap
    /\ nextFreeAddress' = SYSTEM_RESERVED
    /\ holes' = {}
    /\ lastOp' = Op("reset", 0, 0, Undefined, "none", Undefined)

ProgIdle ==
    /\ source = <<>>
    /\ ast = <<>>
    /\ pc = 0
    /\ phase = "idle"
    /\ error = "none"
    /\ variables = EmptyMap

\* the interpreter as constructed, before execute is called
RunIdle ==
    /\ cells = <<>>
    /\ contexts = <<EmptyMap>>
    /\ frames = <<>>
    /\ iterationCount = 0
    /\ recursionDepth = 0
    /\ callStack = <<[name |-> "main", line |-> <<1>>, type |-> "main"]>>
    /\ yielded = <<>>
    /\ executed = 0
    /\ at = "dispatch"
    /\ debugMode = FALSE
    /\ stopped = FALSE
    /\ fileHandles = EmptyMap
    /\ fileWriteOutput = TRUE
    /\ traceLog = <<>>
    /\ stepCounter = 0
    /\ manager = NoManager
    /\ front = NoFront
    /\ lastState = <<>>

DoAllocate == \E size \in AllocSizes, type \in TypeTags : Allocate(size, type) /\ UNCHANGED <<progVars, runVars>>

DoFree == \E address \in Addresses : Free(address) /\ UNCHANGED <<progVars, runVars>>

DoRead == \E address \in Addresses : Read(address) /\ UNCHANGED <<progVars, runVars>>

DoWrite == \E address \in Addresses, value \in Values : Write(address, value) /\ UNCHANGED <<progVars, runVars>>

DoReset == Reset /\ UNCHANGED <<progVars, runVars>>

Init == MemInit /\ ProgIdle /\ RunIdle

Next == DoAllocate \/ DoFree \/ DoRead \/ DoWrite \/ DoReset

Spec == Init /\ [][Next]_vars

(***************************************************************************)
(* Front end and evaluator: declarations, assignments and pointer          *)
(* expressions.  A source is a sequence of physical lines, each line the   *)
(* token sequence the tokenizer produces for it.                           *)
(***************************************************************************)
DecimalDigits == <<"0", "1", "2", "3", "4", "5", "6", "7", "8", "9">>

Tok(type, value) == [type |-> type, value |-> value]

NumberExpr(v) == <<Tok("NUMBER", <<DecimalDigits[v + 1]>>)>>

IdentExpr(name) == <<Tok("IDENTIFIER", name)>>

AddressOfExpr(name) == <<Tok("OPERATOR", "&"), Tok("IDENTIFIER", name)>>

DerefExpr(name) == <<Tok("OPERATOR", "*"), Tok("IDENTIFIER", name)>>

\* DECLARE name : dataType
DeclareLine(name, dataType) ==
    <<Tok("KEYWORD", "DECLARE"), Tok("IDENTIFIER", name), Tok("COLON", ":"),
      Tok("KEYWORD", dataType)>>

\* name <-- expr
AssignLine(name, expr) ==
    <<Tok("IDENTIFIER", name), Tok("ASSIGNMENT", "<--")>> \o expr

\* *name <-- expr
DerefAssignLine(name, expr) ==
    <<Tok("OPERATOR", "*"), Tok("IDENTIFIER", name), Tok("ASSIGNMENT", "<--")>> \o expr

Prologue ==
    <<DeclareLine("x", "INTEGER"), DeclareLine("r", "INTEGER"),
      DeclareLine("p", "POINTER_TO_INTEGER"), DeclareLine("q", "POINTER_TO_INTEGER")>>

BodyLines ==
    {AssignLine("x", NumberExpr(v)) : v \in Values}
        \cup {DerefAssignLine("q", NumberExpr(v)) : v \in Values}
        \cup {AssignLine("p", AddressOfExpr("x")), AssignLine("q", IdentExpr("p")),
              AssignLine("r", IdentExpr("x")), AssignLine("r", DerefExpr("q"))}

Bodies == UNION {[1..n -> BodyLines] : n \in 0..MaxBody}

Sources == {Prologue \o body : body \in Bodies}

DataTypes ==
    {"INTEGER", "REAL", "STRING", "CHAR", "BOOLEAN",
     "POINTER_TO_INTEGER", "POINTER_TO_REAL", "POINTER_TO_CHAR", "VOID_POINTER"}

\* a token of the tokenizer: {type, value, line, column}
Token(type, value, line, column) ==
    [type |-> type, value |-> value, line |-> line, column |-> column]

\* the tokens of the lines of a source in one sequence, as tokenize returns them: each
\* token with its line (its column is its place in the line), a NEWLINE after each
\* line and EOF at the end
RECURSIVE tokensFrom(_, _)
tokensFrom(lines, line) ==
    IF line > Len(lines) THEN <<Token("EOF", "", line, 1)>>
    ELSE [k \in 1..Len(lines[line]) |->
             Token(lines[line][k].type, lines[line][k].value, line, k)]
         \o <<Token("NEWLINE", "\n", line, Len(lines[line]) + 1)>>
         \o tokensFrom(lines, line + 1)

\* a thrown Error; its message names the line of a token
ParseError(msg, line) ==
    [ok |-> FALSE, msg |-> msg, line |-> line, node |-> [type |-> "None"], rest |-> <<>>]

\* what a parse method returns, and the tokens from Parser.current on
Parsed(node, rest) == [ok |-> TRUE, msg |-> "none", line |-> 0, node |-> node, rest |-> rest]

\* Parser.isAtEnd; the tokens from Parser.current on are toks, which end with EOF
isAtEnd(toks) == Head(toks).type = "EOF"

\* Parser.check
check(toks, type) == ~isAtEnd(toks) /\ Head(toks).type = type

\* Parser.check(type) && this.peek().value === value
checkValue(toks, type, value) == check(toks, type) /\ Head(toks).value = value

\* Parser.consume: the token consumed is the node of the result
consume(toks, type, message) ==
    IF check(toks, type) THEN Parsed(Head(toks), Tail(toks))
    ELSE ParseError(message, Head(toks).line)

\* Parser.skipNewlines
RECURSIVE skipNewlines(_)
skipNewlines(toks) == IF check(toks, "NEWLINE") THEN skipNewlines(Tail(toks)) ELSE toks

HexLetters == <<"a", "b", "c", "d", "e", "f">>

UpperHexLetters == <<"A", "B", "C", "D", "E", "F">>

\* the value of a digit of a literal
digitValue(char) ==
    IF \E d \in DOMAIN DecimalDigits : DecimalDigits[d] = char
    THEN (CHOOSE d \in DOMAIN DecimalDigits : DecimalDigits[d] = char) - 1
    ELSE IF \E d \in DOMAIN HexLetters : HexLetters[d] = char
    THEN (CHOOSE d \in DOMAIN HexLetters : HexLetters[d] = char) + 9
    ELSE (CHOOSE d \in DOMAIN UpperHexLetters : UpperHexLetters[d] = char) + 9

\* the number written by digits in the base
RECURSIVE numeral(_, _)
numeral(digits, base) ==
    IF digits = <<>> THEN 0
    ELSE numeral(SubSeq(digits, 1, Len(digits) - 1), base) * base
         + digitValue(digits[Len(digits)])

\* parsePrimary on a NUMBER token: token.value.includes('.') ? parseFloat(token.value)
\* : parseInt(token.value).  parseInt reads a 0x literal in base 16.  A literal with a
\* fraction keeps its text: the modelled sources hold none.
literalValue(text) ==
    IF \E k \in DOMAIN text : text[k] = "." THEN [text |-> text]
    ELSE IF Len(text) >= 2 /\ text[2] = "x" THEN numeral(SubSeq(text, 3, Len(text)), 16)
    ELSE numeral(text, 10)

\* the operators of the levels of the precedence chain: parseOr, parseAnd,
\* parseComparison, parseTerm, parseFactor
LevelOperators ==
    <<[type |-> "KEYWORD", values |-> {"OR"}],
      [type |-> "KEYWORD", values |-> {"AND"}],
      [type |-> "OPERATOR", values |-> {"=", "<>", "<", ">", "<=", ">="}],
      [type |-> "OPERATOR", values |-> {"+", "-", "&"}],
      [type |-> "OPERATOR", values |-> {"*", "/"}]>>

\* parseFactor also takes the keywords DIV and MOD
atOperator(toks, level) ==
    \/ /\ check(toks, LevelOperators[level].type)
       /\ Head(toks).value \in LevelOperators[level].values
    \/ /\ level = 5
       /\ check(toks, "KEYWORD")
       /\ Head(toks).value \in {"DIV", "MOD"}

RECURSIVE parseLevel(_, _), parseOperators(_, _, _), parseNot(_), parseUnary(_),
          parsePrimary(_)

\* Parser.parseExpression
parseExpression(toks) == parseLevel(toks, 1)

\* the operand of a level: parseOr takes parseAnd, parseAnd takes parseNot,
\* parseComparison takes parseTerm, parseTerm takes parseFactor, parseFactor takes
\* parseUnary
parseOperand(toks, level) ==
    IF level = 2 THEN parseNot(toks)
    ELSE IF level = 5 THEN parseUnary(toks)
    ELSE parseLevel(toks, level + 1)

\* Parser.parseOr, parseAnd, parseComparison, parseTerm, parseFactor: an operand, then
\* the while loop over the operators of the level
parseLevel(toks, level) ==
    LET operand == parseOperand(toks, level)
    IN  IF ~operand.ok THEN operand
        ELSE parseOperators(operand.node, operand.rest, level)

\* the while loop of a level: expr = {type: 'BinaryOp', operator, left: expr, right}
parseOperators(expr, toks, level) ==
    IF atOperator(toks, level)
    THEN LET operand == parseOperand(Tail(toks), level)
         IN  IF ~operand.ok THEN operand
             ELSE parseOperators([type |-> "BinaryOp", operator |-> Head(toks).value,
                                  left |-> expr, right |-> operand.node],
                                 operand.rest, level)
    ELSE Parsed(expr, toks)

\* Parser.parseNot
parseNot(toks) ==
    IF checkValue(toks, "KEYWORD", "NOT")
    THEN LET operand == parseNot(Tail(toks))
         IN  IF ~operand.ok THEN operand
             ELSE Parsed([type |-> "UnaryOp", operator |-> "NOT", operand |-> operand.node],
                         operand.rest)
    ELSE parseLevel(toks, 3)

\* Parser.parseUnary
parseUnary(toks) ==
    IF checkValue(toks, "OPERATOR", "-")
    THEN LET operand == parseUnary(Tail(toks))
         IN  IF ~operand.ok THEN operand
             ELSE Parsed([type |-> "UnaryOp", operator |-> "-", operand |-> operand.node],
                         operand.rest)
    ELSE parsePrimary(toks)

\* Parser.parsePrimary.  The modelled sources hold no ( and no [ after an identifier,
\* so an identifier is a simple identifier, and none of the keywords INT, REAL, STRING,
\* MALLOC, SIZE_OF.  The branches test token.type without isAtEnd: EOF matches none.
parsePrimary(toks) ==
    LET token == Head(toks)
        advanced == IF isAtEnd(toks) THEN toks ELSE Tail(toks)
    IN  IF token.type = "OPERATOR" /\ token.value = "&"
        THEN LET operand == parsePrimary(advanced)
             IN  IF ~operand.ok THEN operand
                 ELSE IF operand.node.type # "Identifier"
                 THEN ParseError("& operator requires identifier", token.line)
                 ELSE Parsed([type |-> "AddressOf", target |-> operand.node], operand.rest)
        ELSE IF token.type = "OPERATOR" /\ token.value = "*"
        THEN LET operand == parsePrimary(advanced)
             IN  IF ~operand.ok THEN operand
                 ELSE Parsed([type |-> "Dereference", pointer |-> operand.node],
                             operand.rest)
        ELSE IF token.type = "NUMBER"
        THEN Parsed([type |-> "Literal", value |-> literalValue(token.value),
                     dataType |-> IF \E k \in DOMAIN token.value : token.value[k] = "."
                                  THEN "REAL" ELSE "INTEGER"],
                    advanced)
        ELSE IF token.type = "STRING"
        THEN Parsed([type |-> "Literal", value |-> token.value, dataType |-> "STRING"],
                    advanced)
        ELSE IF token.type = "KEYWORD" /\ token.value \in {"TRUE", "FALSE"}
        THEN Parsed([type |-> "Literal", value |-> token.value = "TRUE",
                     dataType |-> "BOOLEAN"], advanced)
        ELSE IF token.type = "LPAREN"
        THEN LET expr == parseExpression(advanced)
             IN  IF ~expr.ok THEN expr
                 ELSE LET closing == consume(expr.rest, "RPAREN",
                                             "Expected ) after expression")
                      IN  IF ~closing.ok THEN closing ELSE Parsed(expr.node, closing.rest)
        ELSE IF token.type = "IDENTIFIER"
        THEN Parsed([type |-> "Identifier", name |-> token.value], advanced)
        ELSE ParseError("Unexpected token", token.line)

\* Parser.parseAssignment; the modelled sources hold no [ after the target
parseAssignment(toks) ==
    LET line == Head(toks).line
        identifier == Head(toks).value
        arrow == consume(Tail(toks), "ASSIGNMENT", "Expected <- in assignment")
    IN  IF ~arrow.ok THEN arrow
        ELSE LET value == parseExpression(arrow.rest)
             IN  IF ~value.ok THEN value
                 ELSE Parsed(<<[type |-> "Assignment",
                                target |-> [type |-> "Identifier", name |-> identifier],
                                value |-> value.node]>>,
                             value.rest)

\* Parser.parseDataType
parseDataType(toks) ==
    LET token == consume(toks, "KEYWORD", "Expected data type")
    IN  IF ~token.ok THEN token
        ELSE IF token.node.value \in DataTypes \cup {"ARRAY"}
        THEN Parsed(token.node.value, token.rest)
        ELSE ParseError("Invalid data type", token.node.line)

\* the loop of parseDeclareStatements that collects the identifiers after the first
RECURSIVE moreIdentifiers(_, _)
moreIdentifiers(identifiers, toks) ==
    IF check(toks, "COMMA")
    THEN LET identifier == consume(Tail(toks), "IDENTIFIER",
                                   "Expected identifier after comma")
         IN  IF ~identifier.ok THEN identifier
             ELSE moreIdentifiers(Append(identifiers, identifier.node.value),
                                  identifier.rest)
    ELSE Parsed(identifiers, toks)

\* Parser.parseDeclareStatements, regular variables: one Declare node per identifier
\* (the modelled sources declare no ARRAY)
parseDeclareStatements(toks) ==
    LET first == consume(Tail(toks), "IDENTIFIER", "Expected identifier after DECLARE")
    IN  IF ~first.ok THEN first
        ELSE LET identifiers == moreIdentifiers(<<first.node.value>>, first.rest)
             IN  IF ~identifiers.ok THEN identifiers
                 ELSE LET colon == consume(identifiers.rest, "COLON",
                                           "Expected : after identifier(s) in DECLARE")
                      IN  IF ~colon.ok THEN colon
                          ELSE LET dataType == parseDataType(colon.rest)
                               IN  IF ~dataType.ok THEN dataType
                                   ELSE Parsed([k \in DOMAIN identifiers.node |->
                                                   [type |-> "Declare",
                                                    identifier |-> identifiers.node[k],
                                                    dataType |-> dataType.node]],
                                               dataType.rest)

\* Parser.parseStatement: the nodes of the statement, none for a NEWLINE.  Of the
\* statement keywords the modelled sources use DECLARE only, which parse handles.
parseStatement(toks) ==
    LET token == Head(toks)
    IN  IF token.type = "KEYWORD" THEN ParseError("Unexpected keyword", token.line)
        ELSE IF token.type = "IDENTIFIER" THEN parseAssignment(toks)
        ELSE IF token.type = "NEWLINE" THEN Parsed(<<>>, toks)
        ELSE ParseError("Unexpected token", token.line)

\* the while loop of Parser.parse
RECURSIVE parseStatements(_, _)
parseStatements(statements, toks) ==
    LET skipped == skipNewlines(toks)
    IN  IF isAtEnd(skipped)
        THEN [ok |-> TRUE, msg |-> "none", line |-> 0, ast |-> statements]
        ELSE LET stmt == IF checkValue(skipped, "KEYWORD", "DECLARE")
                         THEN parseDeclareStatements(skipped)
                         ELSE parseStatement(skipped)
             IN  IF ~stmt.ok
                 THEN [ok |-> FALSE, msg |-> stmt.msg, line |-> stmt.line, ast |-> <<>>]
                 ELSE parseStatements(statements \o stmt.node, skipNewlines(stmt.rest))

\* new Parser(tokens).parse(): the constructor drops the COMMENT tokens
parse(tokens) == parseStatements(<<>>, SelectSeq(tokens, LAMBDA t : t.type # "COMMENT"))

Thrown(msg) == [err |-> msg, value |-> Undefined]

Returned(value) == [err |-> "none", value |-> value]

\* Interpreter.evaluateIdentifier
evaluateIdentifier(node) ==
    IF node.name \notin DOMAIN variables THEN Thrown("not declared")
    ELSE IF ~variables[node.name].initialized THEN Thrown("used before assignment")
    ELSE Returned(variables[node.name].value)

\* Interpreter.evaluateExpression: Literal and Identifier are the cases of the
\* switch the modelled expressions reach; every other node type falls to default
evaluateExpression(expr) ==
    IF expr.type = "Literal" THEN Returned(expr.value)
    ELSE IF expr.type = "Identifier" THEN evaluateIdentifier(expr)
    ELSE Thrown("Unknown expression type")

\* Interpreter.executeDeclare (scalar branch)
executeDeclare(node) ==
    [n \in DOMAIN variables \cup {node.identifier} |->
        IF n = node.identifier
        THEN [type |-> node.dataType, value |-> Undefined, initialized |-> FALSE]
        ELSE variables[n]]

ProgInit ==
    /\ source \in Sources
    /\ ast = <<>>
    /\ pc = 0
    /\ phase = "parse"
    /\ error = "none"
    /\ variables = EmptyMap

\* App: tokenize, parse, then new Interpreter(...).executeProgram(ast)
ParseSource ==
    /\ phase = "parse"
    /\ LET r == parse(tokensFrom(source, 1))
       IN  IF r.ok
           THEN /\ ast' = r.ast
                /\ pc' = 1
                /\ phase' = "run"
                /\ error' = "none"
           ELSE /\ phase' = "syntaxError"
                /\ error' = r.msg
                /\ UNCHANGED <<ast, pc>>
    /\ UNCHANGED <<source, variables>>

\* executeNode, case 'Declare'
ExecuteDeclare ==
    /\ phase = "run"
    /\ pc <= Len(ast)
    /\ ast[pc].type = "Declare"
    /\ variables' = executeDeclare(ast[pc])
    /\ pc' = pc + 1
    /\ UNCHANGED <<source, ast, phase, error>>

\* executeNode, case 'Assignment': executeAssignment
ExecuteAssignment ==
    /\ phase = "run"
    /\ pc <= Len(ast)
    /\ ast[pc].type = "Assignment"
    /\ LET node == ast[pc]
           value == evaluateExpression(node.value)
       IN  IF value.err # "none"
           THEN /\ phase' = "runtimeError"
                /\ error' = value.err
                /\ UNCHANGED <<pc, variables>>
           ELSE IF node.target.type = "Identifier"
           THEN IF node.target.name \notin DOMAIN variables
                THEN /\ phase' = "runtimeError"
                     /\ error' = "not declared"
                     /\ UNCHANGED <<pc, variables>>
                ELSE /\ variables' = [variables EXCEPT ![node.target.name] =
                                         [type |-> @.type, value |-> value.value,
                                          initialized |-> TRUE]]
                     /\ pc' = pc + 1
                     /\ UNCHANGED <<phase, error>>
           ELSE /\ pc' = pc + 1
                /\ UNCHANGED <<phase, error, variables>>
    /\ UNCHANGED <<source, ast>>

\* execute: the statement loop is exhausted
Finish ==
    /\ phase = "run"
    /\ pc > Len(ast)
    /\ phase' = "done"
    /\ UNCHANGED <<source, ast, pc, error, variables>>

ProgNext ==
    \/ ParseSource /\ UNCHANGED <<memVars, runVars>>
    \/ ExecuteDeclare /\ UNCHANGED <<memVars, runVars>>
    \/ ExecuteAssignment /\ UNCHANGED <<memVars, runVars>>
    \/ Finish /\ UNCHANGED <<memVars, runVars>>

\* a program run: the Interpreter constructs its MemoryEngine and runs the source
InitProg == MemInit /\ ProgInit /\ RunIdle

SpecProg == InitProg /\ [][ProgNext]_vars

(***************************************************************************)
(* Properties of pointer programs                                          *)
(***************************************************************************)
Terminal == {"done", "syntaxError", "runtimeError"}

\* DECLARE x, r, p, q;  p <-- &x;  q <-- p;  *q <-- v;  r <-- x
AliasProgram(v) ==
    Prologue \o <<AssignLine("p", AddressOfExpr("x")), AssignLine("q", IdentExpr("p")),
                  DerefAssignLine("q", NumberExpr(v)), AssignLine("r", IdentExpr("x"))>>

\* C10: after p <-- &x; q <-- p; *q <-- v have executed, the following read
\* of x (r <-- x) returns v: the run completes and r holds v.
C10_PointerAliasing ==
    \A v \in Values :
        (source = AliasProgram(v) /\ phase \in Terminal)
        => /\ phase = "done"
           /\ variables["r"].initialized
           /\ variables["r"].value = v

(***************************************************************************)
(* Properties of the MemoryEngine                                          *)
(***************************************************************************)
Succeeded(o, name) == o.op = name /\ o.err = "none"

InLiveBlock(a) ==
    \E s \in DOMAIN allocations : a \in BlockRange(s, allocations[s].size)

NotAllocatedAt(a) ==
    ReadResult(a).err = "not allocated" /\ WriteError(a) = "not allocated"

\* C1: a write to any slot a+i of a block returned by allocate succeeds, a
\* read of the same address made right after it returns the value written,
\* and the write changes no other slot, no allocation mark and no record.
C1_WriteReadRoundTrip ==
    [][lastOp'.op = "write" =>
         \A a \in Addresses :
            (lastOp'.address = a /\ InLiveBlock(a))
            => /\ lastOp'.err = "none"
               /\ \A v \in Values :
                     lastOp'.value = v => ReadResult(a)' = [err |-> "none", ret |-> v]
               /\ \A b \in (DOMAIN ram \cup DOMAIN ram') \ {a} : RamAt(b)' = RamAt(b)
               /\ UNCHANGED <<allocated, allocations, nextFreeAddress>>]_vars

C1_Witness ==
    /\ Succeeded(lastOp, "write")
    /\ \E s \in DOMAIN allocations :
          /\ allocations[s].size > 1
          /\ lastOp.address = s + allocations[s].size - 1
          /\ RamAt(s) # lastOp.value
    /\ ReadResult(lastOp.address).ret = lastOp.value

\* C2: right after free(a) of a live block every address of the block fails
\* read and write with "not allocated", and an address that fails that way
\* keeps failing that way across every step other than an allocate whose
\* block covers it.
C2_FreedBlockNotAllocated ==
    [][\A a \in SYSTEM_RESERVED..(memorySize - 1) :
          /\ (Succeeded(lastOp', "free")
                /\ a \in BlockRange(lastOp'.address, lastOp'.size))
             => NotAllocatedAt(a)'
          /\ (NotAllocatedAt(a)
                /\ ~(Succeeded(lastOp', "allocate")
                       /\ a \in BlockRange(lastOp'.ret, lastOp'.size)))
             => NotAllocatedAt(a)']_vars

C2_Witness ==
    /\ lastOp.op = "read"
    /\ lastOp.err = "not allocated"
    /\ lastOp.address \in holes

FreeRuns(from, size) ==
    {a \in from..(memorySize - size) : BlockRange(a, size) \cap allocated = {}}

\* C3 (as stated): allocate(size, type) returns the lowest address >= 1024 at
\* which `size` consecutive slots are free, and fails only if there is none.
C3_LowestFitFromReserved ==
    [][\A n \in 1..MaxAllocSize :
          (lastOp'.op = "allocate" /\ lastOp'.size = n)
          => IF FreeRuns(SYSTEM_RESERVED, n) = {}
             THEN lastOp'.err = "cannot find contiguous block"
             ELSE /\ lastOp'.err = "none"
                  /\ lastOp'.ret = SetMin(FreeRuns(SYSTEM_RESERVED, n))]_vars

\* C3 (amended): allocate(size, type) with size >= 1 returns the lowest
\* address >= nextFreeAddress at which `size` consecutive slots are free, and
\* fails only if there is no such run between the watermark and the arena end.
C3_LowestFitFromWatermark ==
    [][\A n \in 1..MaxAllocSize :
          (lastOp'.op = "allocate" /\ lastOp'.size = n)
          => IF FreeRuns(nextFreeAddress, n) = {}
             THEN /\ lastOp'.err = "cannot find contiguous block"
                  /\ UNCHANGED <<ram, allocated, allocations, nextFreeAddress>>
             ELSE /\ lastOp'.err = "none"
                  /\ lastOp'.ret = SetMin(FreeRuns(nextFreeAddress, n))
                  /\ lastOp'.ret \in DOMAIN allocations']_vars

C3_Witness ==
    /\ Succeeded(lastOp, "allocate")
    /\ lastOp.ret > SYSTEM_RESERVED
    /\ SYSTEM_RESERVED \notin allocated
    /\ lastOp.ret + lastOp.size = memorySize

\* C4: every allocated address lies in exactly one allocation record, every
\* address covered by a record is allocated, and no two records overlap.
C4_AllocatedMatchesTable ==
    /\ allocated = UNION {BlockRange(s, allocations[s].size) : s \in DOMAIN allocations}
    /\ \A a \in allocated :
          Cardinality({s \in DOMAIN allocations :
                          a \in BlockRange(s, allocations[s].size)}) = 1
    /\ \A s, t \in DOMAIN allocations :
          s # t => BlockRange(s, allocations[s].size)
                     \cap BlockRange(t, allocations[t].size) = {}

C4_Witness ==
    /\ Succeeded(lastOp, "allocate")
    /\ lastOp.size > 1
    /\ Cardinality(DOMAIN allocations) > 1
    /\ holes # {}

\* C5: nextFreeAddress is >= start + size of every live allocation.
C5_WatermarkAboveLive ==
    \A s \in DOMAIN allocations : nextFreeAddress >= s + allocations[s].size

C5_Witness ==
    /\ Succeeded(lastOp, "free")
    /\ DOMAIN allocations # {}
    /\ nextFreeAddress <= lastOp.address
    /\ \E s \in DOMAIN allocations : allocations[s].size > 1

\* C6: no slot of 0..1023 is ever allocated and allocate never returns an
\* address below 1024, whatever allocate, free and reset calls came before.
C6_ReservedNeverHandedOut ==
    /\ \A a \in allocated : a >= SYSTEM_RESERVED
    /\ \A s \in DOMAIN allocations : s >= SYSTEM_RESERVED
    /\ nextFreeAddress >= SYSTEM_RESERVED
    /\ Succeeded(lastOp, "allocate") => lastOp.ret >= SYSTEM_RESERVED

C6_Witness ==
    /\ Succeeded(lastOp, "allocate")
    /\ lastOp.ret = SYSTEM_RESERVED
    /\ holes # {}

\* C7: free(address) succeeds exactly when address is the start of a live
\* allocation; otherwise it fails with "Invalid free" and changes neither the
\* slots, the allocated set, the allocation table nor nextFreeAddress.
C7_InvalidFreeRejected ==
    [][\A a \in Addresses :
          (lastOp'.op = "free" /\ lastOp'.address = a)
          => IF a \in DOMAIN allocations
             THEN /\ lastOp'.err = "none"
                  /\ a \notin DOMAIN allocations'
             ELSE /\ lastOp'.err = "Invalid free"
                  /\ UNCHANGED <<ram, allocated, allocations, nextFreeAddress>>]_vars

C7_Witness ==
    /\ lastOp.op = "free"
    /\ lastOp.err = "Invalid free"
    /\ lastOp.address \in allocated
    /\ lastOp.address \notin DOMAIN allocations

\* C8 (as stated): the addresses of a block freed while it was not the
\* highest-address allocation are never returned by a later allocate.
C8_HoleNeverReused ==
    Succeeded(lastOp, "allocate")
        => BlockRange(lastOp.ret, lastOp.size) \cap holes = {}

\* C8 (amended): the addresses of a block freed while it was not the
\* highest-address allocation are not returned by an allocate call made
\* while some allocation at a higher address is live.
C8_HoleSkippedWhileHigherLive ==
    [][\A h \in holes :
          (Succeeded(lastOp', "allocate")
              /\ \E s \in DOMAIN allocations : s > h)
          => h \notin BlockRange(lastOp'.ret, lastOp'.size)]_vars

C8_Witness ==
    /\ Succeeded(lastOp, "allocate")
    /\ \E h \in holes : h \notin allocated /\ h < lastOp.ret

\* C9: read and write fail with "out of bounds" when address < 0 or
\* address >= arena size, with "not allocated" when the address is in range
\* but not allocated, and in both cases leave the arena unchanged.
C9_AccessErrors ==
    [][\A a \in Addresses :
          (lastOp'.op \in {"read", "write"} /\ lastOp'.address = a)
          => IF a < 0 \/ a >= memorySize
             THEN /\ lastOp'.err = "out of bounds"
                  /\ UNCHANGED <<ram, allocated, allocations, nextFreeAddress>>
             ELSE IF a \notin allocated
                  THEN /\ lastOp'.err = "not allocated"
                       /\ UNCHANGED <<ram, allocated, allocations, nextFreeAddress>>
                  ELSE lastOp'.err = "none"]_vars

C9_Witness ==
    /\ lastOp.op = "write"
    /\ lastOp.err = "out of bounds"
    /\ lastOp.address = memorySize
    /\ allocated # {}

(***************************************************************************)
(* The statement interpreter: values, variables and expressions            *)
(* (src/src/interpreter/interpreter.ts)                                    *)
(***************************************************************************)
MAX_ITERATIONS == 10000

MAX_RECURSION_DEPTH == 1000

\* a JavaScript number q/Scale is held as the integer q
Scale == 4

Num(q) == [t |-> "number", v |-> q]

\* the number n, an integer
Whole(n) == Num(n * Scale)

Bool(b) == [t |-> "boolean", v |-> b]

\* a string is a sequence of pieces: literal text, or the decimal rendering of a number
Str(s) == [t |-> "string", v |-> s]

Chars(s) == <<[k |-> "lit", s |-> s, n |-> 0]>>

Digits(q) == <<[k |-> "num", s |-> "", n |-> q]>>

undefined == [t |-> "undefined", v |-> 0]

typeof(x) == x.t

\* NaN, the result of parseFloat on text that does not start with a number
NaN == [t |-> "NaN", v |-> 0]

\* Math.floor, in units of 1/Scale
floorTowardZero(q) == IF q >= 0 THEN (q \div Scale) * Scale ELSE -(((-q) \div Scale) * Scale)

floor(q) == (q \div Scale) * Scale

\* Interpreter.valueToString
valueToString(value) ==
    IF typeof(value) = "boolean"
    THEN (IF value.v THEN Chars("TRUE") ELSE Chars("FALSE"))
    ELSE IF typeof(value) = "undefined"
    THEN <<>>
    ELSE IF typeof(value) = "string"
    THEN value.v
    ELSE Digits(value.v)

\* index of globalContext in contexts; every local context has it as parent
GlobalContext == 1

NoVariable == 0

\* variant: the parent of a local context is the context of the caller
getVariableThroughCallers(m, name, context) ==
    LET holding == {c \in 1..context : name \in DOMAIN m.contexts[c]}
    IN  IF holding = {} THEN NoVariable ELSE m.contexts[SetMax(holding)][name]

\* Interpreter.getVariable: the context itself, then its parent chain
getVariable(m, name, context) ==
    IF name \in DOMAIN m.contexts[context]
    THEN m.contexts[context][name]
    ELSE IF context # GlobalContext /\ name \in DOMAIN m.contexts[GlobalContext]
    THEN m.contexts[GlobalContext][name]
    ELSE NoVariable

\* Interpreter.createArray
RECURSIVE createArray(_)
createArray(dimensions) ==
    [i \in dimensions[1].lower .. dimensions[1].upper |->
        IF Len(dimensions) = 1
        THEN [initialized |-> FALSE, value |-> undefined]
        ELSE createArray(Tail(dimensions))]

\* Interpreter.getArrayElement
RECURSIVE getArrayElement(_, _, _)
getArrayElement(arr, indices, dimensions) ==
    IF indices[1] < dimensions[1].lower \/ indices[1] > dimensions[1].upper
    THEN Thrown("Array index out of bounds")
    ELSE IF Len(indices) = 1
    THEN IF ~arr[indices[1]].initialized
         THEN Thrown("Array element accessed before assignment")
         ELSE Returned(arr[indices[1]].value)
    ELSE getArrayElement(arr[indices[1]], Tail(indices), Tail(dimensions))

\* Interpreter.setArrayElement: the array after the store, or the error
RECURSIVE setArrayElement(_, _, _, _)
setArrayElement(arr, indices, value, dimensions) ==
    IF indices[1] < dimensions[1].lower \/ indices[1] > dimensions[1].upper
    THEN Thrown("Array index out of bounds")
    ELSE IF Len(indices) = 1
    THEN Returned([arr EXCEPT ![indices[1]] = [initialized |-> TRUE, value |-> value]])
    ELSE LET inner == setArrayElement(arr[indices[1]], Tail(indices), value, Tail(dimensions))
         IN  IF inner.err # "none"
             THEN inner
             ELSE Returned([arr EXCEPT ![indices[1]] = inner.value])

\* operators of evaluateBinaryOp whose result the fixed-point numbers hold exactly
Comparisons == {"<", ">", "<=", ">="}

compare(operator, l, r) ==
    CASE operator = "<" -> l < r
      [] operator = ">" -> l > r
      [] operator = "<=" -> l <= r
      [] operator = ">=" -> l >= r

\* Math.floor(dividend / divisor), for a divisor other than 0
floorOfQuotient(dividend, divisor) ==
    IF divisor > 0 THEN dividend \div divisor ELSE (-dividend) \div (-divisor)

\* the JavaScript operator %: the remainder has the sign of the dividend
remainder(dividend, divisor) ==
    LET magnitude == (IF dividend < 0 THEN -dividend ELSE dividend)
                     % (IF divisor < 0 THEN -divisor ELSE divisor)
    IN  IF dividend < 0 THEN -magnitude ELSE magnitude

\* Interpreter.evaluateBinaryOp, given the two evaluated operands
applyBinaryOp(operator, left, right) ==
    CASE operator \in {"+", "-"} ->
            IF typeof(left) = "number" /\ typeof(right) = "number"
            THEN Returned(Num(IF operator = "+" THEN left.v + right.v ELSE left.v - right.v))
            ELSE Thrown("Cannot perform arithmetic on non-numbers")
      [] operator \in {"DIV", "MOD"} ->
            IF typeof(left) = "number" /\ typeof(right) = "number"
            THEN IF right.v = 0
                 THEN Thrown("Division by zero")
                 ELSE IF operator = "DIV"
                 THEN Returned(Whole(floorOfQuotient(left.v, right.v)))
                 ELSE Returned(Num(remainder(left.v, right.v)))
            ELSE Thrown("Cannot perform arithmetic on non-numbers")
      [] operator = "&" ->
            Returned(Str(valueToString(left) \o valueToString(right)))
      [] operator = "=" ->
            Returned(Bool(typeof(left) = typeof(right) /\ left.v = right.v))
      [] operator = "<>" ->
            Returned(Bool(~(typeof(left) = typeof(right) /\ left.v = right.v)))
      [] operator \in Comparisons /\ typeof(left) = "number" /\ typeof(right) = "number" ->
            Returned(Bool(compare(operator, left.v, right.v)))
      [] operator \in Comparisons /\ ~(typeof(left) = "string" /\ typeof(right) = "string") ->
            Thrown("Invalid comparison")
      [] operator \in {"AND", "OR"} ->
            IF typeof(left) = "boolean" /\ typeof(right) = "boolean"
            THEN Returned(Bool(IF operator = "AND" THEN left.v /\ right.v ELSE left.v \/ right.v))
            ELSE Thrown("Logical operators require boolean operands")

\* Interpreter.evaluateUnaryOp, given the evaluated operand
applyUnaryOp(operator, operand) ==
    CASE operator = "-" ->
            IF typeof(operand) = "number"
            THEN Returned(Num(-operand.v))
            ELSE Thrown("Cannot negate non-number")
      [] operator = "NOT" ->
            IF typeof(operand) = "boolean"
            THEN Returned(Bool(~operand.v))
            ELSE Thrown("NOT requires boolean operand")
      [] OTHER -> Thrown("Unknown unary operator")

\* Interpreter.evaluateIdentifier in a context
evaluateIdentifierIn(m, node, context) ==
    LET variable == getVariable(m, node.name, context)
    IN  IF variable = NoVariable
        THEN Thrown("not declared")
        ELSE IF ~m.cells[variable].initialized
        THEN Thrown("used before assignment")
        ELSE Returned(m.cells[variable].value)

\* Interpreter.evaluateExpression in a context, for expressions that call no user function
RECURSIVE evaluateExpressionIn(_, _, _)
\* the indices.map(...) of evaluateArrayAccess and executeAssignment: the floored
\* indices, or the first error
RECURSIVE evaluateIndices(_, _, _)
evaluateIndices(m, indices, context) ==
    IF indices = <<>>
    THEN Returned(<<>>)
    ELSE LET val == evaluateExpressionIn(m, Head(indices), context)
         IN  IF val.err # "none"
             THEN val
             ELSE IF typeof(val.value) # "number"
             THEN Thrown("Array index must be a number")
             ELSE LET rest == evaluateIndices(m, Tail(indices), context)
                  IN  IF rest.err # "none"
                      THEN rest
                      ELSE Returned(<<floor(val.value.v) \div Scale>> \o rest.value)

\* Interpreter.evaluateArrayAccess
evaluateArrayAccess(m, node, context) ==
    LET variable == getVariable(m, node.array, context)
    IN  IF variable = NoVariable
        THEN Thrown("Array not declared")
        ELSE IF m.cells[variable].type # "ARRAY"
        THEN Thrown("is not an array")
        ELSE LET indices == evaluateIndices(m, node.indices, context)
             IN  IF indices.err # "none"
                 THEN indices
                 ELSE getArrayElement(m.cells[variable].value.v, indices.value,
                                      m.cells[variable].dimensions)

evaluateExpressionIn(m, expr, context) ==
    CASE expr.type = "Literal" -> Returned(expr.value)
      [] expr.type = "Identifier" -> evaluateIdentifierIn(m, expr, context)
      [] expr.type = "ArrayAccess" -> evaluateArrayAccess(m, expr, context)
      [] expr.type = "BinaryOp" ->
            LET left == evaluateExpressionIn(m, expr.left, context)
            IN  IF left.err # "none"
                THEN left
                ELSE LET right == evaluateExpressionIn(m, expr.right, context)
                     IN  IF right.err # "none"
                         THEN right
                         ELSE applyBinaryOp(expr.operator, left.value, right.value)
      [] expr.type = "UnaryOp" ->
            LET operand == evaluateExpressionIn(m, expr.operand, context)
            IN  IF operand.err # "none"
                THEN operand
                ELSE applyUnaryOp(expr.operator, operand.value)

(***************************************************************************)
(* The statement interpreter: statements                                   *)
(*                                                                         *)
(* frames is the chain of active executeNode / executeSyncNode calls, the  *)
(* innermost last:                                                         *)
(*   block  - a `for (const stmt of ...)` loop over statements, at index;  *)
(*            call says whether the statements are the body that an        *)
(*            executeProcedure / executeFunction is running                *)
(*   while, repeat, for - a loop statement between two runs of its body    *)
(* A frame refers to its statements or its loop statement by their place   *)
(* in ast. sync is TRUE in a function body (executeSyncNode).              *)
(***************************************************************************)
\* the interpreter's state as one record, so that a handler is a function of it
Machine ==
    [cells |-> cells, contexts |-> contexts, frames |-> frames,
     recursionDepth |-> recursionDepth, callStack |-> callStack, yielded |-> yielded,
     phase |-> phase, error |-> error, at |-> at, debugMode |-> debugMode,
     stopped |-> stopped, fileHandles |-> fileHandles]

Become(m) ==
    /\ cells' = m.cells
    /\ contexts' = m.contexts
    /\ frames' = m.frames
    /\ recursionDepth' = m.recursionDepth
    /\ callStack' = m.callStack
    /\ yielded' = m.yielded
    /\ phase' = m.phase
    /\ error' = m.error
    /\ at' = m.at
    /\ debugMode' = m.debugMode
    /\ stopped' = m.stopped
    /\ fileHandles' = m.fileHandles

\* the part of the program at a place: a place is the sequence of indices and field
\* names that lead to it from ast
RECURSIVE Resolve(_, _)
Resolve(tree, place) ==
    IF place = <<>> THEN tree ELSE Resolve(tree[Head(place)], Tail(place))

\* a block that is not the body of a call
NoCall == [type |-> "none"]

Block(place, context, sync, call) ==
    [kind |-> "block", place |-> place, index |-> 1, context |-> context, sync |-> sync,
     call |-> call]

ActiveCalls(frs, types) ==
    Cardinality({i \in DOMAIN frs : frs[i].kind = "block" /\ frs[i].call.type \in types})

\* a RuntimeError that takes the file handles with it
throwClosingFiles(m, msg) ==
    [m EXCEPT !.phase = "runtimeError",
              !.error = msg,
              !.frames = <<>>,
              !.at = "dispatch",
              !.fileHandles = EmptyMap,
              !.contexts = <<m.contexts[GlobalContext]>>,
              !.callStack = SubSeq(m.callStack, 1,
                                   Len(m.callStack) - ActiveCalls(m.frames, {"procedure"})),
              !.recursionDepth = m.recursionDepth
                                 - ActiveCalls(m.frames, {"procedure", "function"})]

\* a RuntimeError propagates out of the generator: the finally clause of every active
\* executeProcedure pops callStack and decrements recursionDepth, that of every active
\* executeFunction decrements recursionDepth
throw(m, msg) ==
    [m EXCEPT !.phase = "runtimeError",
              !.error = msg,
              !.frames = <<>>,
              !.at = "dispatch",
              !.contexts = <<m.contexts[GlobalContext]>>,
              !.callStack = SubSeq(m.callStack, 1,
                                   Len(m.callStack) - ActiveCalls(m.frames, {"procedure"})),
              !.recursionDepth = m.recursionDepth
                                 - ActiveCalls(m.frames, {"procedure", "function"})]

\* the statement loop of the innermost block moves to its next statement
advance(m) ==
    [m EXCEPT !.frames[Len(m.frames)].index = @ + 1, !.at = "dispatch"]

push(m, frame) == [m EXCEPT !.frames = Append(@, frame), !.at = "dispatch"]

pop(m) == [m EXCEPT !.frames = SubSeq(@, 1, Len(@) - 1), !.at = "dispatch"]

\* context.variables.set(name, a new Variable object)
setNew(m, context, name, variable) ==
    [m EXCEPT !.cells = Append(@, variable),
              !.contexts[context] =
                  [n \in DOMAIN @ \cup {name} |->
                      IF n = name THEN Len(m.cells) + 1 ELSE @[n]]]

Scalar(type, value, initialized) ==
    [type |-> type, value |-> value, initialized |-> initialized, dimensions |-> <<>>]

\* Interpreter.executeDeclare in a context
executeDeclareIn(m, node, context) ==
    IF node.dataType = "ARRAY"
    THEN setNew(m, context, node.identifier,
                [type |-> "ARRAY",
                 value |-> [t |-> "array", v |-> createArray(node.arrayBounds.dimensions)],
                 initialized |-> FALSE,
                 dimensions |-> node.arrayBounds.dimensions,
                 elementType |-> IF "arrayElementType" \in DOMAIN node
                                 THEN node.arrayElementType ELSE "undefined"])
    ELSE setNew(m, context, node.identifier, Scalar(node.dataType, undefined, FALSE))

\* Interpreter.executeAssignment after node.value has been evaluated
assignValueOnly(m, node, value, context) ==
    IF node.target.type = "Identifier" /\ getVariable(m, node.target.name, context) # NoVariable
    THEN [m EXCEPT !.cells[getVariable(m, node.target.name, context)].value = value]
    ELSE m

assign(m, node, value, context) ==
    IF node.target.type = "Identifier"
    THEN LET variable == getVariable(m, node.target.name, context)
         IN  IF variable = NoVariable
             THEN throw(m, "not declared")
             ELSE [m EXCEPT !.cells[variable].value = value,
                            !.cells[variable].initialized = TRUE]
    ELSE IF node.target.type = "ArrayAccess"
    THEN LET variable == getVariable(m, node.target.array, context)
         IN  IF variable = NoVariable
             THEN throw(m, "Array not declared")
             ELSE IF m.cells[variable].type # "ARRAY"
             THEN throw(m, "is not an array")
             ELSE LET indices == evaluateIndices(m, node.target.indices, context)
                  IN  IF indices.err # "none"
                      THEN throw(m, indices.err)
                      ELSE LET stored == setArrayElement(m.cells[variable].value.v,
                                                         indices.value, value,
                                                         m.cells[variable].dimensions)
                           IN  IF stored.err # "none"
                               THEN throw(m, stored.err)
                               ELSE [m EXCEPT !.cells[variable].value.v = stored.value]
    ELSE m

\* globalContext.procedures / globalContext.functions after the first pass of execute:
\* a later definition of a name replaces an earlier one
Registered(type, name) ==
    {i \in DOMAIN ast : ast[i].type = type /\ ast[i].name = name}

\* localContext.variables.set(name, variable): the name denotes an existing Variable
setShared(m, context, name, variable) ==
    [m EXCEPT !.contexts[context] =
        [n \in DOMAIN @ \cup {name} |-> IF n = name THEN variable ELSE @[n]]]

\* one round of the parameter binding loop of executeProcedure / executeFunction
bindParameterByCopy(m, param, arg, callerContext, localContext) ==
    LET value == evaluateExpressionIn(m, arg, callerContext)
    IN  IF value.err # "none"
        THEN throw(m, value.err)
        ELSE setNew(m, localContext, param.name, Scalar(param.type, value.value, TRUE))

bindParameterByReference(m, param, arg, callerContext, localContext) ==
    IF arg.type # "Identifier"
    THEN bindParameterByCopy(m, param, arg, callerContext, localContext)
    ELSE LET variable == getVariable(m, arg.name, callerContext)
         IN  IF variable = NoVariable
             THEN throw(m, "Variable not found")
             ELSE setShared(m, localContext, param.name, variable)

bindParameter(m, param, arg, callerContext, localContext) ==
    IF param.byRef
    THEN IF arg.type # "Identifier"
         THEN throw(m, "BYREF parameter must be a variable")
         ELSE LET variable == getVariable(m, arg.name, callerContext)
              IN  IF variable = NoVariable
                  THEN throw(m, "Variable not found")
                  ELSE setShared(m, localContext, param.name, variable)
    ELSE LET value == evaluateExpressionIn(m, arg, callerContext)
         IN  IF value.err # "none"
             THEN throw(m, value.err)
             ELSE setNew(m, localContext, param.name, Scalar(param.type, value.value, TRUE))

\* the parameter binding loop, from parameter i: the first error ends it
RECURSIVE bindParameters(_, _, _, _, _, _)
bindParameters(m, parameters, args, callerContext, localContext, i) ==
    IF i > Len(parameters) \/ m.phase # "run"
    THEN m
    ELSE bindParameters(bindParameter(m, parameters[i], args[i], callerContext, localContext),
                        parameters, args, callerContext, localContext, i + 1)

\* executeProcedure / executeFunction: `this.recursionDepth > MAX_RECURSION_DEPTH`,
\* tested after the increment
tooDeepAtCeiling(depth) == depth >= MAX_RECURSION_DEPTH

tooDeep(depth) == depth > MAX_RECURSION_DEPTH

\* executeProcedure / executeFunction up to the start of the body of ast[callee].
\* pending is the place of the CALL, or of the assignment waiting for a function's
\* value. An error raised here leaves recursionDepth incremented: the throw precedes
\* the try block.
enterCall(m, callee, args, callerContext, pending) ==
    IF Len(args) # Len(ast[callee].parameters)
    THEN throw(m, "Incorrect number of arguments")
    ELSE LET entered == [m EXCEPT !.recursionDepth = @ + 1]
             localContext == Len(m.contexts) + 1
         IN  IF tooDeep(entered.recursionDepth)
             THEN throw(entered, "Maximum recursion depth exceeded")
             ELSE LET bound == bindParameters(
                                   [entered EXCEPT !.contexts = Append(@, EmptyMap)],
                                   ast[callee].parameters, args, callerContext,
                                   localContext, 1)
                  IN  IF bound.phase # "run"
                      THEN bound
                      ELSE push(IF ast[callee].type = "Procedure"
                                THEN [bound EXCEPT !.callStack =
                                         Append(@, [name |-> ast[callee].name,
                                                    line |-> pending,
                                                    type |-> "procedure"])]
                                ELSE bound,
                                Block(<<callee, "body">>, localContext,
                                      ast[callee].type = "Function",
                                      [type |-> IF ast[callee].type = "Procedure"
                                                THEN "procedure" ELSE "function",
                                       name |-> ast[callee].name,
                                       pending |-> pending,
                                       context |-> callerContext]))

\* cap of the statement counter `executed`: one more than the budget is enough to
\* tell a run that went past it
MaxExecuted == MAX_ITERATIONS + 1

Top == frames[Len(frames)]

\* the statements a block frame loops over
Statements(frame) == Resolve(ast, frame.place)

\* the innermost statement loop has a next statement
AtStatement ==
    /\ phase = "run"
    /\ frames # <<>>
    /\ Top.kind = "block"
    /\ Top.index <= Len(Statements(Top))

Node == Statements(Top)[Top.index]

\* the place of Node in ast
NodePlace == Top.place \o <<Top.index>>

\* the innermost statement loop is exhausted
AtBlockEnd ==
    /\ phase = "run"
    /\ frames # <<>>
    /\ Top.kind = "block"
    /\ Top.index > Len(Statements(Top))

\* executeNode: iterationCount++ and the budget test, then the switch, which in debug
\* mode is reached when the step callback's promise has resolved;
\* executeSyncNode: the switch alone
Dispatch(types) ==
    /\ AtStatement
    /\ Node.type \in types
    /\ IF at = "switch"
       THEN UNCHANGED <<iterationCount, executed>>
       ELSE /\ at = "dispatch"
            /\ Top.sync \/ ~debugMode
            /\ Top.sync \/ iterationCount < MAX_ITERATIONS
            /\ iterationCount' = IF Top.sync THEN iterationCount ELSE iterationCount + 1
            /\ executed' = IF executed < MaxExecuted THEN executed + 1 ELSE executed

\* executeNode awaiting stepCallback() with debugMode on or off
RunPauseAnyMode ==
    /\ AtStatement
    /\ Node.type \notin {"Procedure", "Function"}
    /\ at = "dispatch"
    /\ ~Top.sync
    /\ iterationCount < MAX_ITERATIONS
    /\ iterationCount' = iterationCount + 1
    /\ executed' = IF executed < MaxExecuted THEN executed + 1 ELSE executed
    /\ Become([Machine EXCEPT !.callStack[Len(callStack)].line = NodePlace,
                              !.at = "step"])

\* executeNode in debug mode, awaiting stepCallback() with callStack as it was
RunPauseKeepsLine ==
    /\ AtStatement
    /\ Node.type \notin {"Procedure", "Function"}
    /\ at = "dispatch"
    /\ ~Top.sync
    /\ debugMode
    /\ iterationCount < MAX_ITERATIONS
    /\ iterationCount' = iterationCount + 1
    /\ executed' = IF executed < MaxExecuted THEN executed + 1 ELSE executed
    /\ Become([Machine EXCEPT !.at = "step"])

\* executeNode in debug mode: iterationCount++ and the budget test, the line of the top
\* callStack frame becomes the statement's, and the generator awaits stepCallback()
RunPause ==
    /\ AtStatement
    /\ Node.type \notin {"Procedure", "Function"}
    /\ at = "dispatch"
    /\ ~Top.sync
    /\ debugMode
    /\ iterationCount < MAX_ITERATIONS
    /\ iterationCount' = iterationCount + 1
    /\ executed' = IF executed < MaxExecuted THEN executed + 1 ELSE executed
    /\ Become([Machine EXCEPT !.callStack[Len(callStack)].line = NodePlace,
                              !.at = "step"])

\* App.handleDebugStep: the pending step promise resolves
handleDebugStep ==
    /\ phase = "run"
    /\ at = "step"
    /\ ~stopped
    /\ Become([Machine EXCEPT !.at = "switch"])
    /\ UNCHANGED <<iterationCount, executed>>

\* App.handleDebugContinue: disableDebugMode(), then the pending step promise resolves
handleDebugContinue ==
    /\ phase = "run"
    /\ at = "step"
    /\ ~stopped
    /\ Become([Machine EXCEPT !.at = "switch", !.debugMode = FALSE])
    /\ UNCHANGED <<iterationCount, executed>>

\* App.handleDebugStop: the pending step promise resolves; debugMode stays as it is and
\* no later promise of the step callback is resolved
handleDebugStop ==
    /\ phase = "run"
    /\ at = "step"
    /\ ~stopped
    /\ Become([Machine EXCEPT !.at = "switch", !.stopped = TRUE])
    /\ UNCHANGED <<iterationCount, executed>>

\* executeNode: the budget is exceeded
ExecutionTimeout ==
    /\ AtStatement
    /\ at = "dispatch"
    /\ ~Top.sync
    /\ Node.type \notin {"Procedure", "Function"}
    /\ iterationCount >= MAX_ITERATIONS
    /\ iterationCount' = iterationCount + 1
    /\ Become(throw(Machine, "Execution timeout: Possible infinite loop"))
    /\ UNCHANGED executed

\* case 'Declare'
RunDeclare ==
    /\ Dispatch({"Declare"})
    /\ Become(executeDeclareIn(advance(Machine), Node, Top.context))

\* case 'Assignment': executeAssignment / executeSyncAssignment. A value that is a call
\* of a user function starts executeFunction; the store follows its RETURN.
RunAssignment ==
    /\ Dispatch({"Assignment"})
    /\ IF Node.value.type = "FunctionCall"
       THEN LET funcs == Registered("Function", Node.value.name)
            IN  IF funcs = {}
                THEN Become(throw(Machine, "Function not found"))
                ELSE Become(enterCall(advance(Machine), SetMax(funcs),
                                      Node.value.arguments, Top.context, NodePlace))
       ELSE LET value == evaluateExpressionIn(Machine, Node.value, Top.context)
            IN  IF value.err # "none"
                THEN Become(throw(Machine, value.err))
                ELSE Become(assign(advance(Machine), Node, value.value, Top.context))

\* the parts of executeOutput: parts.join(' ')
RECURSIVE joinParts(_)
joinParts(parts) ==
    IF parts = <<>>
    THEN <<>>
    ELSE IF Len(parts) = 1
    THEN parts[1]
    ELSE parts[1] \o Chars(" ") \o joinParts(Tail(parts))

RECURSIVE outputParts(_, _, _)
outputParts(m, expressions, context) ==
    IF expressions = <<>>
    THEN Returned(<<>>)
    ELSE LET value == evaluateExpressionIn(m, Head(expressions), context)
         IN  IF value.err # "none"
             THEN value
             ELSE LET rest == outputParts(m, Tail(expressions), context)
                  IN  IF rest.err # "none"
                      THEN rest
                      ELSE Returned(<<valueToString(value.value)>> \o rest.value)

\* case 'Output': executeOutput
RunOutput ==
    /\ Dispatch({"Output"})
    /\ ~Top.sync
    /\ LET parts == outputParts(Machine, Node.expressions, Top.context)
       IN  IF parts.err # "none"
           THEN Become(throw(Machine, parts.err))
           ELSE Become([advance(Machine) EXCEPT !.yielded = Append(@, joinParts(parts.value))])

(***************************************************************************)
(* INPUT and the file statements.  A text is a sequence of pieces, as in   *)
(* valueToString; what the user types and what an uploaded file holds are  *)
(* texts the handlers' promises resolve with.                              *)
(***************************************************************************)
\* what the user types at an INPUT prompt: 1.5, abc, TRUE
Inputs == {Digits(Scale + Scale \div 2), Chars("abc"), Chars("TRUE")}

\* what an uploaded file holds, cut into lines: nothing; the line 2; the lines abc and 1
Uploads == {<< <<>> >>, <<Digits(2 * Scale)>>, <<Chars("abc"), Digits(Scale)>>}

\* parseFloat: the number a text starts with, NaN if it starts with none
parseFloat(text) ==
    IF text # <<>> /\ text[1].k = "num" /\ (Len(text) = 1 \/ text[2].k = "lit")
    THEN Num(text[1].n)
    ELSE NaN

\* parseInt: the digits before the decimal point
parseInt(text) ==
    IF parseFloat(text) = NaN THEN NaN ELSE Num(floorTowardZero(parseFloat(text).v))

\* x || 0
orZero(value) == IF value = NaN THEN Num(0) ELSE value

\* String.prototype.toLowerCase on the literal texts that have capitals
toLowerCase(text) ==
    [i \in DOMAIN text |->
        IF text[i].k = "lit" /\ text[i].s \in {"TRUE", "True"}
        THEN [text[i] EXCEPT !.s = "true"]
        ELSE text[i]]

\* the switch on variable.type / elementType of executeInput and executeReadFile
convertLine(type, line) ==
    CASE type = "INTEGER" -> orZero(parseInt(line))
      [] type = "REAL" -> orZero(parseFloat(line))
      [] type = "BOOLEAN" -> Bool(toLowerCase(line) = Chars("true"))
      [] OTHER -> Str(line)

\* variable.elementType || 'STRING'
elementTypeOf(variable) ==
    IF variable.elementType = "undefined" THEN "STRING" ELSE variable.elementType

\* executeInput before it awaits the input handler: the error it throws, if any
targetError(m, node, context) ==
    IF node.target.type = "Identifier"
    THEN (IF getVariable(m, node.target.name, context) = NoVariable
          THEN "not declared" ELSE "none")
    ELSE IF node.target.type = "ArrayAccess"
    THEN LET variable == getVariable(m, node.target.array, context)
         IN  IF variable = NoVariable
             THEN "Array not declared"
             ELSE IF m.cells[variable].type # "ARRAY"
             THEN "is not an array"
             ELSE evaluateIndices(m, node.target.indices, context).err
    ELSE "none"

\* the line is converted and stored in the target: executeInput after the await,
\* executeReadFile after position++
storeLine(m, node, line, context) ==
    IF targetError(m, node, context) # "none"
    THEN throw(m, targetError(m, node, context))
    ELSE IF node.target.type = "Identifier"
    THEN LET variable == getVariable(m, node.target.name, context)
         IN  [m EXCEPT !.cells[variable].value = convertLine(m.cells[variable].type, line),
                       !.cells[variable].initialized = TRUE]
    ELSE IF node.target.type = "ArrayAccess"
    THEN LET variable == getVariable(m, node.target.array, context)
         IN  assign(m, node, convertLine(elementTypeOf(m.cells[variable]), line), context)
    ELSE m

\* the generator yields a line and the statement is done
yield(m, line) ==
    IF m.phase # "run" THEN m ELSE [advance(m) EXCEPT !.yielded = Append(@, line)]

\* case 'Input': executeInput up to `await this.inputHandler(...)`
RunInput ==
    /\ Dispatch({"Input"})
    /\ ~Top.sync
    /\ IF targetError(Machine, Node, Top.context) # "none"
       THEN Become(throw(Machine, targetError(Machine, Node, Top.context)))
       ELSE IF Node.target.type \in {"Identifier", "ArrayAccess"}
       THEN Become([Machine EXCEPT !.at = "input"])
       ELSE Become(advance(Machine))

\* the input handler's promise resolves with what the user typed: executeInput stores
\* the converted value and yields the input
inputResolves ==
    /\ AtStatement
    /\ at = "input"
    /\ \E input \in Inputs :
          Become(yield(storeLine(Machine, Node, input, Top.context), input))
    /\ UNCHANGED <<iterationCount, executed>>

\* fileHandles.set(filename, fileHandle)
setHandle(m, filename, fileHandle) ==
    [m EXCEPT !.fileHandles =
        [f \in DOMAIN @ \cup {filename} |-> IF f = filename THEN fileHandle ELSE @[f]]]

FileHandle(mode, data, position) == [mode |-> mode, data |-> data, position |-> position]

\* the filename of a file statement, or the error of evaluating and checking it
filenameOf(m, node, context) ==
    LET filenameValue == evaluateExpressionIn(m, node.filename, context)
    IN  IF filenameValue.err # "none"
        THEN filenameValue
        ELSE IF valueToString(filenameValue.value) = <<>>
        THEN Thrown("Filename cannot be empty")
        ELSE Returned(valueToString(filenameValue.value))

openedLine(filename, mode) ==
    Chars("Opened file '") \o filename \o Chars("' in ") \o Chars(mode) \o Chars(" mode")

\* executeOpenFile without its yield
openFileSilently(m, filename, mode, lines) ==
    advance(setHandle(m, filename, FileHandle(mode, lines, 0)))

\* executeOpenFile once the lines are known: the handle is registered and the
\* generator yields
openFile(m, filename, mode, lines) ==
    LET fileHandle ==
            IF mode = "READ" THEN FileHandle("READ", lines, 0)
            ELSE IF mode = "WRITE" THEN FileHandle("WRITE", <<>>, 0)
            ELSE IF filename \in DOMAIN m.fileHandles
            THEN FileHandle("APPEND", m.fileHandles[filename].data,
                            Len(m.fileHandles[filename].data))
            ELSE FileHandle("APPEND", <<>>, 0)
    IN  yield(setHandle(m, filename, fileHandle), openedLine(filename, mode))

\* case 'OpenFile': executeOpenFile, for READ up to `await this.fileUploadHandler(...)`
RunOpenFile ==
    /\ Dispatch({"OpenFile"})
    /\ ~Top.sync
    /\ LET filename == filenameOf(Machine, Node, Top.context)
       IN  IF filename.err # "none"
           THEN Become(throw(Machine, filename.err))
           ELSE IF filename.value \in DOMAIN fileHandles
           THEN Become(throw(Machine, "is already open"))
           ELSE IF Node.mode = "READ"
           THEN Become([Machine EXCEPT !.at = "upload"])
           ELSE Become(openFile(Machine, filename.value, Node.mode, <<>>))

\* the upload handler's promise resolves with the file's content, which
\* content.split('\n') cuts into one line or more
uploadResolves ==
    /\ AtStatement
    /\ at = "upload"
    /\ \E lines \in Uploads :
          Become(openFile(Machine, filenameOf(Machine, Node, Top.context).value,
                          "READ", lines))
    /\ UNCHANGED <<iterationCount, executed>>

closedLine(filename, fileHandle) ==
    IF fileHandle.mode \in {"WRITE", "APPEND"}
    THEN Chars("Closed file '") \o filename \o Chars("' (")
         \o Digits(Len(fileHandle.data) * Scale) \o Chars(" lines written)")
    ELSE Chars("Closed file '") \o filename \o Chars("'")

\* case 'CloseFile': executeCloseFile. A file opened for WRITE or APPEND stays in
\* fileHandles.
RunCloseFile ==
    /\ Dispatch({"CloseFile"})
    /\ ~Top.sync
    /\ LET filename == filenameOf(Machine, Node, Top.context)
       IN  IF filename.err # "none"
           THEN Become(throw(Machine, filename.err))
           ELSE IF filename.value \notin DOMAIN fileHandles
           THEN Become(throw(Machine, "is not open"))
           ELSE LET fileHandle == fileHandles[filename.value]
                    closed == IF fileHandle.mode \in {"WRITE", "APPEND"}
                              THEN Machine
                              ELSE [Machine EXCEPT !.fileHandles =
                                       [f \in DOMAIN @ \ {filename.value} |-> @[f]]]
                IN  Become(yield(closed, closedLine(filename.value, fileHandle)))

\* case 'ReadFile': executeReadFile
RunReadFile ==
    /\ Dispatch({"ReadFile"})
    /\ ~Top.sync
    /\ LET filename == filenameOf(Machine, Node, Top.context)
       IN  IF filename.err # "none"
           THEN Become(throw(Machine, filename.err))
           ELSE IF filename.value \notin DOMAIN fileHandles
           THEN Become(throw(Machine, "is not open"))
           ELSE LET fileHandle == fileHandles[filename.value]
                IN  IF fileHandle.mode # "READ"
                    THEN Become(throw(Machine, "not opened for reading"))
                    ELSE IF fileHandle.position >= Len(fileHandle.data)
                    THEN Become(throw(Machine, "Attempt to read past end of file"))
                    ELSE LET line == fileHandle.data[fileHandle.position + 1]
                             moved == [Machine EXCEPT
                                          !.fileHandles[filename.value].position = @ + 1]
                         IN  Become(yield(storeLine(moved, Node, line, Top.context), line))

writtenLine(filename, dataString) ==
    Chars("[Write to ") \o filename \o Chars("] ") \o dataString

\* case 'WriteFile': executeWriteFile
RunWriteFile ==
    /\ Dispatch({"WriteFile"})
    /\ ~Top.sync
    /\ LET filename == filenameOf(Machine, Node, Top.context)
       IN  IF filename.err # "none"
           THEN Become(throw(Machine, filename.err))
           ELSE IF filename.value \notin DOMAIN fileHandles
           THEN Become(throw(Machine, "is not open"))
           ELSE IF fileHandles[filename.value].mode = "READ"
           THEN Become(throw(Machine, "not opened for writing"))
           ELSE LET dataValue == evaluateExpressionIn(Machine, Node.data, Top.context)
                IN  IF dataValue.err # "none"
                    THEN Become(throw(Machine, dataValue.err))
                    ELSE LET dataString == valueToString(dataValue.value)
                             written == [Machine EXCEPT
                                            !.fileHandles[filename.value].data =
                                                Append(@, dataString),
                                            !.fileHandles[filename.value].position = @ + 1]
                         IN  IF fileWriteOutput
                             THEN Become(yield(written,
                                               writtenLine(filename.value, dataString)))
                             ELSE Become(advance(written))

\* executeIf after the IF condition was false: the first ELSE IF block whose condition
\* holds, else the ELSE block, as a place inside the IF statement
RECURSIVE elseBranch(_, _, _, _)
elseBranch(m, node, context, i) ==
    IF i > Len(node.elseIfBlocks)
    THEN Returned(<<"elseBlock">>)
    ELSE LET elseIfCondition ==
                 evaluateExpressionIn(m, node.elseIfBlocks[i].condition, context)
         IN  IF elseIfCondition.err # "none"
             THEN elseIfCondition
             ELSE IF typeof(elseIfCondition.value) # "boolean"
             THEN Thrown("ELSE IF condition must be boolean")
             ELSE IF elseIfCondition.value.v
             THEN Returned(<<"elseIfBlocks", i, "block">>)
             ELSE elseBranch(m, node, context, i + 1)

\* case 'If': executeIf / executeSyncIf
RunIf ==
    /\ Dispatch({"If"})
    /\ LET condition == evaluateExpressionIn(Machine, Node.condition, Top.context)
       IN  IF condition.err # "none"
           THEN Become(throw(Machine, condition.err))
           ELSE IF typeof(condition.value) # "boolean"
           THEN Become(throw(Machine, "IF condition must be boolean"))
           ELSE LET branch == IF condition.value.v
                              THEN Returned(<<"thenBlock">>)
                              ELSE elseBranch(Machine, Node, Top.context, 1)
                IN  IF branch.err # "none"
                    THEN Become(throw(Machine, branch.err))
                    ELSE Become(push(advance(Machine),
                                     Block(NodePlace \o branch.value, Top.context,
                                           Top.sync, NoCall)))

\* a field of a case block that is undefined
Missing == [type |-> "Missing"]

\* executeCase: `typeof x === 'number' ? x : parseFloat(String(x))`
toNumber(value) ==
    IF typeof(value) = "number"
    THEN value
    ELSE IF typeof(value) = "string" /\ Len(value.v) = 1 /\ value.v[1].k = "num"
    THEN Num(value.v[1].n)
    ELSE NaN

\* executeCase: `numValue >= numStart && numValue <= numEnd`; a comparison with NaN
\* is false
withinRangeExclusive(numValue, numStart, numEnd) ==
    /\ NaN \notin {numValue, numStart, numEnd}
    /\ numValue.v > numStart.v
    /\ numValue.v < numEnd.v

withinRange(numValue, numStart, numEnd) ==
    /\ NaN \notin {numValue, numStart, numEnd}
    /\ numValue.v >= numStart.v
    /\ numValue.v <= numEnd.v

\* executeCase: `matched` for one case block
caseMatches(m, value, caseBlock, context) ==
    IF caseBlock.value # Missing
    THEN LET caseValue == evaluateExpressionIn(m, caseBlock.value, context)
         IN  IF caseValue.err # "none"
             THEN caseValue
             ELSE Returned(Bool(value = caseValue.value))
    ELSE IF caseBlock.rangeStart # Missing /\ caseBlock.rangeEnd # Missing
    THEN LET rangeStart == evaluateExpressionIn(m, caseBlock.rangeStart, context)
             rangeEnd == evaluateExpressionIn(m, caseBlock.rangeEnd, context)
         IN  IF rangeStart.err # "none"
             THEN rangeStart
             ELSE IF rangeEnd.err # "none"
             THEN rangeEnd
             ELSE Returned(Bool(withinRange(toNumber(value), toNumber(rangeStart.value),
                                        toNumber(rangeEnd.value))))
    ELSE Returned(Bool(FALSE))

\* executeCase, the loop over the case blocks from block i on: the place inside the
\* CASE statement of the block to run, <<>> if none is to run
RECURSIVE caseBranchLastWins(_, _, _, _, _)
caseBranchLastWins(m, node, value, context, i) ==
    IF i > Len(node.cases)
    THEN (IF node.otherwiseBlock.present
          THEN Returned(<<"otherwiseBlock", "statements">>)
          ELSE Returned(<<>>))
    ELSE LET matched == caseMatches(m, value, node.cases[i], context)
             later == caseBranchLastWins(m, node, value, context, i + 1)
         IN  IF matched.err # "none"
             THEN matched
             ELSE IF later.err # "none"
             THEN later
             ELSE IF later.value # <<>> /\ later.value[1] = "cases"
             THEN later
             ELSE IF matched.value.v
             THEN Returned(<<"cases", i, "statements">>)
             ELSE later

RECURSIVE caseBranch(_, _, _, _, _)
caseBranch(m, node, value, context, i) ==
    IF i > Len(node.cases)
    THEN (IF node.otherwiseBlock.present
          THEN Returned(<<"otherwiseBlock", "statements">>)
          ELSE Returned(<<>>))
    ELSE LET matched == caseMatches(m, value, node.cases[i], context)
         IN  IF matched.err # "none"
             THEN matched
             ELSE IF matched.value.v
             THEN Returned(<<"cases", i, "statements">>)
             ELSE caseBranch(m, node, value, context, i + 1)

\* case 'Case': executeCase / executeSyncCase
RunCase ==
    /\ Dispatch({"Case"})
    /\ LET value == evaluateExpressionIn(Machine, Node.expression, Top.context)
       IN  IF value.err # "none"
           THEN Become(throw(Machine, value.err))
           ELSE LET branch == caseBranch(Machine, Node, value.value, Top.context, 1)
                IN  IF branch.err # "none"
                    THEN Become(throw(Machine, branch.err))
                    ELSE IF branch.value = <<>>
                    THEN Become(advance(Machine))
                    ELSE Become(push(advance(Machine),
                                     Block(NodePlace \o branch.value, Top.context,
                                           Top.sync, NoCall)))

Loop(kind, place, context, sync) ==
    [kind |-> kind, place |-> place, context |-> context, sync |-> sync]

\* the loop statement a loop frame is running
LoopNode(frame) == Resolve(ast, frame.place)

\* a run of the body of the loop statement a loop frame is running
Body(frame) == Block(frame.place \o <<"body">>, frame.context, frame.sync, NoCall)

\* case 'While': executeWhile / executeSyncWhile is entered
RunWhile ==
    /\ Dispatch({"While"})
    /\ Become(push(advance(Machine), Loop("while", NodePlace, Top.context, Top.sync)))

\* executeWhile: the condition is evaluated at the top of every iteration
WhileTest ==
    /\ phase = "run"
    /\ frames # <<>>
    /\ Top.kind = "while"
    /\ LET condition == evaluateExpressionIn(Machine, LoopNode(Top).condition, Top.context)
       IN  IF condition.err # "none"
           THEN Become(throw(Machine, condition.err))
           ELSE IF typeof(condition.value) # "boolean"
           THEN Become(throw(Machine, "WHILE condition must be boolean"))
           ELSE IF ~condition.value.v
           THEN Become(pop(Machine))
           ELSE Become(push(Machine, Body(Top)))
    /\ UNCHANGED <<iterationCount, executed>>

\* case 'Repeat': executeRepeat / executeSyncRepeat starts with the body
RunRepeat ==
    /\ Dispatch({"Repeat"})
    /\ Become(push(push(advance(Machine), Loop("repeat", NodePlace, Top.context, Top.sync)),
                   Body(Loop("repeat", NodePlace, Top.context, Top.sync))))

\* executeRepeat: the condition is evaluated after every run of the body
RepeatTest ==
    /\ phase = "run"
    /\ frames # <<>>
    /\ Top.kind = "repeat"
    /\ LET condition == evaluateExpressionIn(Machine, LoopNode(Top).condition, Top.context)
       IN  IF condition.err # "none"
           THEN Become(throw(Machine, condition.err))
           ELSE IF typeof(condition.value) # "boolean"
           THEN Become(throw(Machine, "UNTIL condition must be boolean"))
           ELSE IF condition.value.v
           THEN Become(pop(Machine))
           ELSE Become(push(Machine, Body(Top)))
    /\ UNCHANGED <<iterationCount, executed>>

\* executeFor: if (step === 0)
stepIsNegative(step) == step < 0

stepIsZero(step) == step = 0

\* executeFor / executeSyncFor up to the first test of the loop condition: the loop
\* keeps the Variable object it found or created, and the values of end and step
enterFor(m, place, context, sync) ==
    LET node == Resolve(ast, place)
        found == getVariable(m, node.variable, context)
        declared == IF found = NoVariable
                    THEN setNew(m, context, node.variable, Scalar("INTEGER", Whole(0), FALSE))
                    ELSE m
        variable == IF found = NoVariable THEN Len(m.cells) + 1 ELSE found
        start == evaluateExpressionIn(declared, node.start, context)
        end == evaluateExpressionIn(declared, node.end, context)
        step == evaluateExpressionIn(declared, node.step, context)
    IN  IF start.err # "none"
        THEN throw(declared, start.err)
        ELSE IF end.err # "none"
        THEN throw(declared, end.err)
        ELSE IF step.err # "none"
        THEN throw(declared, step.err)
        ELSE IF typeof(start.value) # "number" \/ typeof(end.value) # "number"
                \/ typeof(step.value) # "number"
        THEN throw(declared, "FOR loop bounds must be numbers")
        ELSE IF stepIsZero(step.value.v)
        THEN throw(declared, "FOR loop STEP cannot be zero")
        ELSE push([declared EXCEPT !.cells[variable].value = Num(floor(start.value.v)),
                                   !.cells[variable].initialized = TRUE],
                  [kind |-> "for", place |-> place, context |-> context, sync |-> sync,
                   variable |-> variable,
                   end |-> end.value.v, step |-> step.value.v, entered |-> FALSE])

\* case 'For'
RunFor ==
    /\ Dispatch({"For"})
    /\ Become(enterFor(advance(Machine), NodePlace, Top.context, Top.sync))

\* executeFor: `end` and `step` inside the loop are the constants computed on entry
forEndReevaluated(m, frame) ==
    evaluateExpressionIn(m, LoopNode(frame).end, frame.context).value.v

forEnd(m, frame) == frame.end

forStep(m, frame) == frame.step

\* executeFor: `variable.value += Math.floor(step)` after a run of the body
forAdvanceUnfloored(m, frame) ==
    [m EXCEPT !.cells[frame.variable].value = Num(@.v + forStep(m, frame))]

forAdvance(m, frame) ==
    [m EXCEPT !.cells[frame.variable].value = Num(@.v + floor(forStep(m, frame)))]

\* executeFor: the loop condition, chosen by the sign of step
forContinues(m, frame) ==
    IF forStep(m, frame) > 0
    THEN m.cells[frame.variable].value.v <= forEnd(m, frame)
    ELSE m.cells[frame.variable].value.v >= forEnd(m, frame)

\* executeFor / executeSyncFor: the increment that follows a run of the body, then the
\* test of the loop condition
ForTest ==
    /\ phase = "run"
    /\ frames # <<>>
    /\ Top.kind = "for"
    /\ LET advanced == IF Top.entered THEN forAdvance(Machine, Top) ELSE Machine
       IN  IF forContinues(advanced, Top)
           THEN Become(push([advanced EXCEPT !.frames[Len(frames)].entered = TRUE],
                            Body(Top)))
           ELSE Become(pop(advanced))
    /\ UNCHANGED <<iterationCount, executed>>

\* case 'Call': executeCall
RunCall ==
    /\ Dispatch({"Call"})
    /\ ~Top.sync
    /\ LET procs == Registered("Procedure", Node.name)
       IN  IF procs # {}
           THEN Become(enterCall(advance(Machine), SetMax(procs), Node.arguments,
                                 Top.context, NodePlace))
           ELSE IF Registered("Function", Node.name) # {}
           THEN Become(throw(Machine, "Use assignment to call function, not CALL"))
           ELSE Become(throw(Machine, "Procedure not found"))

\* index in frames of the innermost running executeFunction
RECURSIVE functionBelow(_, _)
functionBelow(frs, i) ==
    IF frs[i].kind = "block" /\ frs[i].call.type = "function" THEN i
    ELSE functionBelow(frs, i - 1)

InnermostFunction == functionBelow(frames, Len(frames))

\* case 'Return': the ReturnValue is caught by the innermost executeFunction, whose
\* caller then finishes its assignment; outside a function nothing catches it and it
\* leaves the generator through the finally clauses, like an error
RunReturn ==
    /\ Dispatch({"Return"})
    /\ LET returnValue == evaluateExpressionIn(Machine, Node.value, Top.context)
       IN  IF returnValue.err # "none"
           THEN Become(throw(Machine, returnValue.err))
           ELSE IF ~Top.sync
           THEN Become([throw(Machine, "ReturnValue") EXCEPT !.phase = "uncaught"])
           ELSE LET call == frames[InnermostFunction].call
                    returned ==
                        [Machine EXCEPT !.frames = SubSeq(@, 1, InnermostFunction - 1),
                                        !.contexts = SubSeq(@, 1, Len(@) - 1),
                                        !.recursionDepth = @ - 1]
                IN  Become(assign(returned, Resolve(ast, call.pending), returnValue.value,
                                  call.context))

\* executeSyncNode with a case that yields a line and goes on
RunUnsupportedYields ==
    /\ Dispatch({"Output", "Call", "Input", "OpenFile", "CloseFile", "ReadFile",
                 "WriteFile"})
    /\ Top.sync
    /\ Become(yield(Machine, <<>>))

\* executeSyncNode, default: a statement a function body may not contain
RunUnsupported ==
    /\ Dispatch({"Output", "Call", "Input", "OpenFile", "CloseFile", "ReadFile",
                 "WriteFile"})
    /\ Top.sync
    /\ Become(throw(Machine, "Unsupported statement in function"))

\* a block under a loop or inside another block has run its last statement
BlockEnd ==
    /\ AtBlockEnd
    /\ Len(frames) > 1
    /\ Top.call.type = "none"
    /\ Become(pop(Machine))
    /\ UNCHANGED <<iterationCount, executed>>

\* executeProcedure: the body is done; finally { callStack.pop(); recursionDepth-- }
ProcedureEnd ==
    /\ AtBlockEnd
    /\ Top.call.type = "procedure"
    /\ Become([Machine EXCEPT !.frames = SubSeq(@, 1, Len(@) - 1),
                              !.contexts = SubSeq(@, 1, Len(@) - 1),
                              !.callStack = SubSeq(@, 1, Len(@) - 1),
                              !.recursionDepth = @ - 1])
    /\ UNCHANGED <<iterationCount, executed>>

\* executeFunction: the body ended without RETURN
FunctionEnd ==
    /\ AtBlockEnd
    /\ Top.call.type = "function"
    /\ Become(throw(Machine, "Function did not return a value"))
    /\ UNCHANGED <<iterationCount, executed>>

\* execute, second pass: a PROCEDURE or FUNCTION definition is passed over
SkipDefinition ==
    /\ AtStatement
    /\ Len(frames) = 1
    /\ Node.type \in {"Procedure", "Function"}
    /\ Become(advance(Machine))
    /\ UNCHANGED <<iterationCount, executed>>

\* execute: the second pass has run the last top-level statement
RunFinish ==
    /\ AtBlockEnd
    /\ Len(frames) = 1
    /\ Become([Machine EXCEPT !.phase = "done", !.frames = <<>>])
    /\ UNCHANGED <<iterationCount, executed>>

(***************************************************************************)
(* Programs: the ASTNode[] handed to execute (src/src/interpreter/types.ts)*)
(***************************************************************************)
Literal(value) == [type |-> "Literal", value |-> value]

Identifier(name) == [type |-> "Identifier", name |-> name]

ArrayAccess(array, indices) == [type |-> "ArrayAccess", array |-> array, indices |-> indices]

BinaryOp(operator, left, right) ==
    [type |-> "BinaryOp", operator |-> operator, left |-> left, right |-> right]

FunctionCall(name, arguments) ==
    [type |-> "FunctionCall", name |-> name, arguments |-> arguments]

Declare(identifier, dataType) ==
    [type |-> "Declare", identifier |-> identifier, dataType |-> dataType]

DeclareArray(identifier, dimensions) ==
    [type |-> "Declare", identifier |-> identifier, dataType |-> "ARRAY",
     arrayBounds |-> [dimensions |-> dimensions]]

Assignment(target, value) == [type |-> "Assignment", target |-> target, value |-> value]

Output(expressions) == [type |-> "Output", expressions |-> expressions]

If(condition, thenBlock, elseBlock) ==
    [type |-> "If", condition |-> condition, thenBlock |-> thenBlock,
     elseIfBlocks |-> <<>>, elseBlock |-> elseBlock]

\* a case block `value : statements` and a case block `rangeStart TO rangeEnd :
\* statements`
Single(value, statements) ==
    [value |-> value, rangeStart |-> Missing, rangeEnd |-> Missing, statements |-> statements]

Range(rangeStart, rangeEnd, statements) ==
    [value |-> Missing, rangeStart |-> rangeStart, rangeEnd |-> rangeEnd,
     statements |-> statements]

\* CaseNode.otherwiseBlock: undefined, or the statements after OTHERWISE
Absent == [present |-> FALSE, statements |-> <<>>]

Present(statements) == [present |-> TRUE, statements |-> statements]

Case(expression, cases, otherwiseBlock) ==
    [type |-> "Case", expression |-> expression, cases |-> cases,
     otherwiseBlock |-> otherwiseBlock]

While(condition, body) == [type |-> "While", condition |-> condition, body |-> body]

Repeat(body, condition) == [type |-> "Repeat", body |-> body, condition |-> condition]

For(variable, start, end, step, body) ==
    [type |-> "For", variable |-> variable, start |-> start, end |-> end, step |-> step,
     body |-> body]

Call(name, arguments) == [type |-> "Call", name |-> name, arguments |-> arguments]

Input(target) == [type |-> "Input", target |-> target]

OpenFile(filename, mode) == [type |-> "OpenFile", filename |-> filename, mode |-> mode]

CloseFile(filename) == [type |-> "CloseFile", filename |-> filename]

ReadFile(filename, target) ==
    [type |-> "ReadFile", filename |-> filename, target |-> target]

WriteFile(filename, data) == [type |-> "WriteFile", filename |-> filename, data |-> data]

\* DECLARE a : ARRAY[...] OF elementType
DeclareArrayOf(identifier, dimensions, elementType) ==
    [type |-> "Declare", identifier |-> identifier, dataType |-> "ARRAY",
     arrayBounds |-> [dimensions |-> dimensions], arrayElementType |-> elementType]

Return(value) == [type |-> "Return", value |-> value]

Parameter(name, type, byRef) == [name |-> name, type |-> type, byRef |-> byRef]

Procedure(name, parameters, body) ==
    [type |-> "Procedure", name |-> name, parameters |-> parameters, body |-> body]

Function(name, parameters, body) ==
    [type |-> "Function", name |-> name, parameters |-> parameters,
     returnType |-> "INTEGER", body |-> body]

\* values assigned to a parameter are 1..MaxPassed
MaxPassed == 2

\* PROCEDURE Set(<BYREF|BYVAL> name : INTEGER)      FUNCTION Set(...) RETURNS INTEGER
\*     name <- v                                        name <- v
\*     name <- name + 1                                 name <- name + 1
\* ENDPROCEDURE                                         RETURN name
\* DECLARE x, r : INTEGER
\* x <- 0
\* CALL Set(x)                                      r <- Set(x)
\* OUTPUT x
ParameterProgram(kind, byRef, name, v) ==
    LET setBody == <<Assignment(Identifier(name), Literal(Whole(v))),
                     Assignment(Identifier(name),
                                BinaryOp("+", Identifier(name), Literal(Whole(1))))>>
        parameters == <<Parameter(name, "INTEGER", byRef)>>
    IN  <<IF kind = "Procedure"
          THEN Procedure("Set", parameters, setBody)
          ELSE Function("Set", parameters, setBody \o <<Return(Identifier(name))>>),
          Declare("x", "INTEGER"),
          Declare("r", "INTEGER"),
          Assignment(Identifier("x"), Literal(Whole(0))),
          IF kind = "Procedure"
          THEN Call("Set", <<Identifier("x")>>)
          ELSE Assignment(Identifier("r"), FunctionCall("Set", <<Identifier("x")>>)),
          Output(<<Identifier("x")>>)>>

ParameterPrograms ==
    {ParameterProgram(kind, byRef, name, v) :
        kind \in {"Procedure", "Function"}, byRef \in BOOLEAN, name \in {"p", "x"},
        v \in 1..MaxPassed}

\* number of statements after the declarations of a declare / assign / read program
MaxOps == 3

\* the statements of a declare / assign / read program
ReadWriteStatements ==
    {Assignment(Identifier("x"), Literal(Whole(1))),
     Output(<<Identifier("x")>>),
     Declare("x", "INTEGER"),
     Assignment(ArrayAccess("a", <<Literal(Whole(1))>>), Literal(Whole(1))),
     Output(<<ArrayAccess("a", <<Literal(Whole(1))>>)>>),
     Output(<<ArrayAccess("a", <<Literal(Whole(2))>>)>>),
     DeclareArray("a", <<[lower |-> 1, upper |-> 2]>>)}

\* DECLARE x : INTEGER
\* DECLARE a : ARRAY[1:2] OF INTEGER
\* then up to MaxOps statements, each one of ReadWriteStatements
ReadWritePrograms ==
    {<<Declare("x", "INTEGER"), DeclareArray("a", <<[lower |-> 1, upper |-> 2]>>)>> \o ops :
        ops \in UNION {[1..n -> ReadWriteStatements] : n \in 0..MaxOps}}

\* FOR loops run to an end value in 1..MaxEnd
MaxEnd == 5

\* start values of a FOR loop: 1, 1.5 and MaxEnd
ForStarts == {Scale, Scale + Scale \div 2, MaxEnd * Scale}

ForEnds == {e * Scale : e \in 1..MaxEnd}

\* step values whose floor is not zero: 1, 1.5, 2, -0.25, -0.5, -1, -1.5
CountingSteps ==
    {Scale, Scale + Scale \div 2, 2 * Scale, -1, -(Scale \div 2), -Scale,
     -(Scale + Scale \div 2)}

\* step values whose floor is zero: 0.25, 0.5, 0.75
DrainingSteps == {q \in 1..(Scale - 1) : TRUE}

OutputBody == <<Output(<<Identifier("i")>>)>>

CopyBody == <<Assignment(Identifier("x"), Identifier("i"))>>

\* DECLARE x : INTEGER
\* [DECLARE i : INTEGER        i <- 7]
\* FOR i <- start TO end STEP step
\*     body
\* NEXT i
ForProgram(declared, start, end, step, body) ==
    <<Declare("x", "INTEGER")>>
    \o (IF declared
        THEN <<Declare("i", "INTEGER"), Assignment(Identifier("i"), Literal(Whole(7)))>>
        ELSE <<>>)
    \o <<For("i", Literal(Num(start)), Literal(Num(end)), Literal(Num(step)), body)>>

\* loops that count, with a body that outputs the loop variable or with none; loops
\* with a zero increment and no body, or with STEP 0; and FOR i <- 1 TO 3 STEP 0.5 with
\* a body
ForPrograms ==
    {ForProgram(declared, start, end, step, body) :
        declared \in BOOLEAN, start \in ForStarts, end \in ForEnds,
        step \in CountingSteps, body \in {OutputBody, <<>>}}
    \cup {ForProgram(declared, start, end, step, <<>>) :
            declared \in BOOLEAN, start \in ForStarts, end \in ForEnds,
            step \in DrainingSteps}
    \cup {ForProgram(declared, start, end, 0, body) :
            declared \in BOOLEAN, start \in ForStarts, end \in ForEnds,
            body \in {OutputBody, <<>>}}
    \cup {ForProgram(FALSE, Scale, 3 * Scale, Scale \div 2, CopyBody)}

\* amounts added to the end and step variables inside a FOR body
Deltas == {-1, 0, 1}

\* DECLARE n, s : INTEGER
\* n <- end0            s <- step0
\* FOR i <- 1 TO n STEP s
\*     n <- n + dn
\*     s <- s + ds
\*     OUTPUT i
\* NEXT i
EndStepProgram(end0, step0, dn, ds) ==
    <<Declare("n", "INTEGER"),
      Declare("s", "INTEGER"),
      Assignment(Identifier("n"), Literal(Whole(end0))),
      Assignment(Identifier("s"), Literal(Whole(step0))),
      For("i", Literal(Whole(1)), Identifier("n"), Identifier("s"),
          <<Assignment(Identifier("n"), BinaryOp("+", Identifier("n"), Literal(Whole(dn)))),
            Assignment(Identifier("s"), BinaryOp("+", Identifier("s"), Literal(Whole(ds)))),
            Output(<<Identifier("i")>>)>>)>>

EndStepPrograms ==
    {EndStepProgram(end0, step0, dn, ds) :
        end0 \in 1..MaxEnd, step0 \in 1..2, dn \in Deltas, ds \in Deltas}

\* x <- 1
SetX == Assignment(Identifier("x"), Literal(Whole(1)))

\* the loops that do not end on their own: WHILE TRUE, REPEAT ... UNTIL FALSE and
\* FOR i <- 1 TO 3 STEP 0.5
EndlessLoops(body) ==
    {While(Literal(Bool(TRUE)), body),
     Repeat(body, Literal(Bool(FALSE))),
     For("i", Literal(Whole(1)), Literal(Whole(3)), Literal(Num(Scale \div 2)), body)}

\* DECLARE x : INTEGER      PROCEDURE P()        FUNCTION F() RETURNS INTEGER
\* loop                         loop                 loop
\*                          ENDPROCEDURE             RETURN 1
\*                          DECLARE x : INTEGER  ENDFUNCTION
\*                          CALL P()             DECLARE x : INTEGER
\*                                               x <- F()
LoopProgram(place, loop) ==
    IF place = "main"
    THEN <<Declare("x", "INTEGER"), loop>>
    ELSE IF place = "procedure"
    THEN <<Procedure("P", <<>>, <<loop>>), Declare("x", "INTEGER"), Call("P", <<>>)>>
    ELSE <<Function("F", <<>>, <<loop, Return(Literal(Whole(1)))>>),
           Declare("x", "INTEGER"),
           Assignment(Identifier("x"), FunctionCall("F", <<>>))>>

Places == {"main", "procedure", "function"}

\* every endless loop with an empty body, and WHILE TRUE with the body x <- 1, in
\* each place
LoopPrograms ==
    {LoopProgram(place, loop) :
        place \in Places,
        loop \in EndlessLoops(<<>>) \cup {While(Literal(Bool(TRUE)), <<SetX>>)}}

\* the file of the file programs
Log == Literal(Str(Chars("log")))

\* INPUT and the file statements
Suspending ==
    {Input(Identifier("x")),
     OpenFile(Log, "READ"),
     OpenFile(Log, "WRITE"),
     CloseFile(Log),
     ReadFile(Log, Identifier("x")),
     WriteFile(Log, Identifier("x"))}

\* bodies of a function: one that ends without RETURN, one with OUTPUT, one with CALL,
\* one that returns from inside IF ... ELSE, one that returns from inside a loop, and
\* one with each of INPUT and the file statements, alone or after RETURN in an IF
FunctionBodies ==
    {<<Declare("y", "INTEGER"), Assignment(Identifier("y"), Literal(Whole(1)))>>,
     <<Output(<<Literal(Whole(1))>>)>>,
     <<Call("F", <<>>)>>,
     <<If(BinaryOp("=", Identifier("x"), Literal(Whole(1))),
          <<Return(Literal(Whole(1)))>>, <<Return(Literal(Whole(2)))>>)>>,
     <<If(BinaryOp("=", Identifier("x"), Literal(Whole(2))),
          <<Return(Literal(Whole(1)))>>, <<Return(Literal(Whole(2)))>>)>>,
     <<While(Literal(Bool(TRUE)), <<Return(Literal(Whole(1)))>>)>>}
    \cup {<<statement>> : statement \in Suspending}
    \cup {<<If(BinaryOp("=", Identifier("x"), Literal(Whole(2))),
              <<Return(Literal(Whole(1)))>>, <<statement>>)>> : statement \in Suspending}

\* FUNCTION F() RETURNS INTEGER
\*     body
\* ENDFUNCTION
\* DECLARE x, r : INTEGER
\* x <- 1
\* IF x = 1 THEN r <- F() ELSE r <- 0 ENDIF
\* OUTPUT r
FunctionProgram(body) ==
    <<Function("F", <<>>, body),
      Declare("x", "INTEGER"),
      Declare("r", "INTEGER"),
      SetX,
      If(BinaryOp("=", Identifier("x"), Literal(Whole(1))),
         <<Assignment(Identifier("r"), FunctionCall("F", <<>>))>>,
         <<Assignment(Identifier("r"), Literal(Whole(0)))>>),
      Output(<<Identifier("r")>>)>>

FunctionPrograms == {FunctionProgram(body) : body \in FunctionBodies}

\* RETURN outside a function
StrayReturn == <<Declare("x", "INTEGER"), Return(Literal(Whole(1))), SetX>>

\* DECLARE x : INTEGER
\* x <- 1
\* REPEAT x <- x + 1 UNTIL x >= 3
\* OUTPUT x
CountingRepeat ==
    <<Declare("x", "INTEGER"),
      SetX,
      Repeat(<<Assignment(Identifier("x"), BinaryOp("+", Identifier("x"), Literal(Whole(1))))>>,
             BinaryOp(">=", Identifier("x"), Literal(Whole(3)))),
      Output(<<Identifier("x")>>)>>

\* r <- r + n
AddToR(n) == Assignment(Identifier("r"), BinaryOp("+", Identifier("r"), Literal(Whole(n))))

\* what the blocks of a CASE program add to r: 1 and 2 in its case blocks, 4 after
\* OTHERWISE
Marks == <<1, 2>>

OtherwiseMark == 4

\* selector values are 0..MaxSelector, case values and range bounds 1..MaxSelector - 1
MaxSelector == 4

CaseValues == 1..(MaxSelector - 1)

\* the case blocks `k :` and `lo TO hi :`, each adding mark to r
CaseBlocks(mark) ==
    {Single(Literal(Whole(k)), <<AddToR(mark)>>) : k \in CaseValues}
    \cup {Range(Literal(Whole(lo)), Literal(Whole(hi)), <<AddToR(mark)>>) :
             lo \in CaseValues, hi \in CaseValues}

\* DECLARE m, r : INTEGER      FUNCTION F() RETURNS INTEGER
\* m <- selector                   statement
\* r <- 0                          RETURN r
\* statement                   ENDFUNCTION
\* OUTPUT r                    DECLARE m, r : INTEGER
\*                             m <- selector
\*                             r <- 0
\*                             r <- F()
\*                             OUTPUT r
SelectorProgram(place, selector, statement) ==
    (IF place = "function"
     THEN <<Function("F", <<>>, <<statement, Return(Identifier("r"))>>)>>
     ELSE <<>>)
    \o <<Declare("m", "INTEGER"),
         Declare("r", "INTEGER"),
         Assignment(Identifier("m"), selector),
         Assignment(Identifier("r"), Literal(Whole(0))),
         IF place = "function"
         THEN Assignment(Identifier("r"), FunctionCall("F", <<>>))
         ELSE statement,
         Output(<<Identifier("r")>>)>>

\* CASE OF m
\*     first
\*     second
\*     [OTHERWISE : r <- r + 4]
\* ENDCASE
CaseProgram(place, selector, first, second, otherwiseBlock) ==
    SelectorProgram(place, selector,
                    Case(Identifier("m"), <<first, second>>, otherwiseBlock))

CasePrograms ==
    {CaseProgram(place, Literal(Whole(v)), first, second, otherwiseBlock) :
        place \in {"main"}, v \in 0..MaxSelector,
        first \in CaseBlocks(Marks[1]), second \in CaseBlocks(Marks[2]),
        otherwiseBlock \in {Absent, Present(<<AddToR(OtherwiseMark)>>)}}
    \cup {CaseProgram("function", Literal(Whole(v)), first, second, Present(<<AddToR(OtherwiseMark)>>)) :
            v \in 0..MaxSelector,
            first \in CaseBlocks(Marks[1]), second \in {Single(Literal(Whole(2)), <<AddToR(Marks[2])>>)}}

\* the bounds of the range 50 TO 59
RangeStart == 50

RangeEnd == 59

\* selector values around the bounds of the range: 49, 49.75, 50, 55, 59, 59.25, 60
RangeNumbers ==
    {(RangeStart - 1) * Scale, RangeStart * Scale - 1, RangeStart * Scale,
     (RangeStart + 5) * Scale, RangeEnd * Scale, RangeEnd * Scale + 1,
     (RangeEnd + 1) * Scale}

\* selectors that are not numbers: 1 = 1, "fifty" & "" and "" & 50
OtherSelectors ==
    {BinaryOp("=", Literal(Whole(1)), Literal(Whole(1))),
     BinaryOp("&", Literal(Str(Chars("fifty"))), Literal(Str(<<>>))),
     BinaryOp("&", Literal(Str(<<>>)), Literal(Whole(RangeStart)))}

\* CASE OF m
\*     50 TO 59 : r <- r + 1
\*     OTHERWISE : r <- r + 4
\* ENDCASE
RangeCase(expression) ==
    Case(expression,
         <<Range(Literal(Whole(RangeStart)), Literal(Whole(RangeEnd)), <<AddToR(Marks[1])>>)>>,
         Present(<<AddToR(OtherwiseMark)>>))

RangeProgram(selector) == SelectorProgram("main", selector, RangeCase(Identifier("m")))

\* the same with m <- 0 and CASE OF selector
DirectRangeProgram(selector) ==
    SelectorProgram("main", Literal(Whole(0)), RangeCase(selector))

RangePrograms ==
    {RangeProgram(Literal(Num(q))) : q \in RangeNumbers}
    \cup {DirectRangeProgram(selector) : selector \in OtherSelectors}

\* k times x <- 1
Straight(k) == [i \in 1..k |-> SetX]

\* the longest run of statements before the recursive CALL with which
\* MAX_RECURSION_DEPTH nested calls, and the two statements that lead to the first,
\* are dispatched within MAX_ITERATIONS
LongestBody == (MAX_ITERATIONS - 2) \div MAX_RECURSION_DEPTH - 1

BodyLengths == {0, LongestBody}

\* statements of one run of the body of LongLoop
LoopBody == 5

\* FOR i <- 1 TO MAX_ITERATIONS / 10
\*     x <- 1           (LoopBody times)
\* NEXT i
LongLoop ==
    <<For("i", Literal(Whole(1)), Literal(Whole(MAX_ITERATIONS \div 10)), Literal(Whole(1)),
          Straight(LoopBody))>>

\* PROCEDURE R()
\*     before
\*     CALL R()
\* ENDPROCEDURE
\* DECLARE x : INTEGER
\* CALL R()
RecursionProgram(before) ==
    <<Procedure("R", <<>>, before \o <<Call("R", <<>>)>>),
      Declare("x", "INTEGER"),
      Call("R", <<>>)>>

RecursionPrograms ==
    {RecursionProgram(Straight(k)) : k \in BodyLengths} \cup {RecursionProgram(LongLoop)}

\* the statements that set up m and r for a statement under test
Prelude(selector) ==
    <<Declare("m", "INTEGER"),
      Declare("r", "INTEGER"),
      Assignment(Identifier("m"), selector),
      Assignment(Identifier("r"), Literal(Whole(0)))>>

CallF == <<Assignment(Identifier("f"), FunctionCall("F", <<>>))>>

\* FUNCTION F() RETURNS INTEGER        the statement runs through executeSyncNode
\*     DECLARE m, r : INTEGER          on the function's own m and r, and through
\*     m <- selector                   executeNode on the global m and r
\*     r <- 0
\*     statement
\*     RETURN r
\* ENDFUNCTION
\* DECLARE f : INTEGER
\* [f <- F()]
\* DECLARE m, r : INTEGER
\* m <- selector
\* r <- 0
\* statement
\* [f <- F()]
PairProgram(functionFirst, selector, statement) ==
    <<Function("F", <<>>, Prelude(selector) \o <<statement, Return(Identifier("r"))>>),
      Declare("f", "INTEGER")>>
    \o (IF functionFirst THEN CallF ELSE <<>>)
    \o Prelude(selector) \o <<statement>>
    \o (IF functionFirst THEN <<>> ELSE CallF)

\* FOR i <- 1 TO MAX_ITERATIONS / LoopBody
\*     r <- r + 1       (LoopBody times)
\* NEXT i
LongStatement ==
    For("i", Literal(Whole(1)), Literal(Whole(MAX_ITERATIONS \div LoopBody)),
        Literal(Whole(1)), [k \in 1..LoopBody |-> AddToR(1)])

\* statements of every kind both paths run, on m = 2 and r = 0
SharedStatements ==
    {Declare("r", "INTEGER"),
     AddToR(1),
     Assignment(Identifier("q"), Literal(Whole(1))),
     If(BinaryOp("=", Identifier("m"), Literal(Whole(2))), <<AddToR(1)>>, <<AddToR(2)>>),
     If(Identifier("m"), <<AddToR(1)>>, <<AddToR(2)>>),
     While(BinaryOp("<", Identifier("r"), Identifier("m")), <<AddToR(1)>>),
     Repeat(<<AddToR(1)>>, BinaryOp(">=", Identifier("r"), Identifier("m"))),
     For("i", Literal(Whole(1)), Identifier("m"), Literal(Whole(1)), <<AddToR(1)>>),
     For("i", Literal(Whole(1)), Identifier("m"), Literal(Whole(0)), <<AddToR(1)>>),
     Case(Identifier("m"),
          <<Range(Literal(Whole(1)), Literal(Whole(3)), <<AddToR(1)>>)>>,
          Present(<<AddToR(OtherwiseMark)>>)),
     LongStatement}

PairPrograms ==
    {PairProgram(functionFirst, Literal(Whole(2)), statement) :
        functionFirst \in BOOLEAN, statement \in SharedStatements}

\* the statements of a file program
FileStatements ==
    Suspending \cup {OpenFile(Log, "APPEND"), Output(<<Identifier("x")>>)}

\* DECLARE x : INTEGER
\* x <- 1
\* first
\* second
\* third
FileProgram(first, second, third) ==
    <<Declare("x", "INTEGER"), SetX, first, second, third>>

FilePrograms ==
    {FileProgram(first, second, third) :
        first \in FileStatements, second \in FileStatements, third \in FileStatements}

\* DECLARE x : type                  DECLARE a : ARRAY[1:2] OF type
\* INPUT x                           INPUT a[i]
\* OUTPUT x                          OUTPUT a[1]
InputProgram(type) == <<Declare("x", type), Input(Identifier("x")), Output(<<Identifier("x")>>)>>

ArrayInputProgram(type, i) ==
    <<DeclareArrayOf("a", <<[lower |-> 1, upper |-> 2]>>, type),
      Input(ArrayAccess("a", <<Literal(Whole(i))>>)),
      Output(<<ArrayAccess("a", <<Literal(Whole(1))>>)>>)>>

\* INPUT y, with no y declared
UndeclaredInput == <<Input(Identifier("y")), SetX>>

InputTypes == {"INTEGER", "REAL"}

InputPrograms ==
    {InputProgram(type) : type \in InputTypes}
    \cup {ArrayInputProgram(type, i) : type \in InputTypes, i \in {1, 3}}
    \cup {UndeclaredInput}

\* PROCEDURE P()               FUNCTION F() RETURNS INTEGER
\*     x <- 1                      DECLARE y : INTEGER
\*     OUTPUT x                    RETURN 1
\* ENDPROCEDURE                ENDFUNCTION
\* DECLARE x, r : INTEGER
\* r <- F()
\* CALL P()
\* FOR i <- 1 TO 2
\*     r <- r + 1
\* NEXT i
\* INPUT x
\* last
StepProgram(last) ==
    <<Procedure("P", <<>>, <<SetX, Output(<<Identifier("x")>>)>>),
      Function("F", <<>>, <<Declare("y", "INTEGER"), Return(Literal(Whole(1)))>>),
      Declare("x", "INTEGER"),
      Declare("r", "INTEGER"),
      Assignment(Identifier("r"), FunctionCall("F", <<>>)),
      Call("P", <<>>),
      For("i", Literal(Whole(1)), Literal(Whole(2)), Literal(Whole(1)), <<AddToR(1)>>),
      Input(Identifier("x")),
      last>>

\* the programs that are also run under the debugger
DebugPrograms ==
    {StepProgram(Output(<<Identifier("r")>>)), StepProgram(Output(<<Identifier("z")>>)),
     CountingRepeat}

\* PROCEDURE Inner()              FUNCTION Inner() RETURNS INTEGER
\*     OUTPUT y                        RETURN y
\* ENDPROCEDURE                    ENDFUNCTION
\* PROCEDURE Outer(y : INTEGER)    PROCEDURE Outer()
\*                                     DECLARE y : INTEGER
\*                                     y <- 2
\*     DECLARE w : INTEGER
\*     w <- 3
\*     CALL Inner()                    w <- Inner()
\*     OUTPUT w
\* ENDPROCEDURE
\* DECLARE y : INTEGER             (with or without these two lines)
\* y <- 1
\* CALL Outer(2)                   CALL Outer()
\* OUTPUT w
ScopeProgram(kind, asParameter, global) ==
    <<IF kind = "Procedure"
      THEN Procedure("Inner", <<>>, <<Output(<<Identifier("y")>>)>>)
      ELSE Function("Inner", <<>>, <<Return(Identifier("y"))>>),
      Procedure("Outer",
                IF asParameter THEN <<Parameter("y", "INTEGER", FALSE)>> ELSE <<>>,
                (IF asParameter
                 THEN <<>>
                 ELSE <<Declare("y", "INTEGER"),
                        Assignment(Identifier("y"), Literal(Whole(2)))>>)
                \o <<Declare("w", "INTEGER"),
                      Assignment(Identifier("w"), Literal(Whole(3))),
                      IF kind = "Procedure"
                      THEN Call("Inner", <<>>)
                      ELSE Assignment(Identifier("w"), FunctionCall("Inner", <<>>)),
                      Output(<<Identifier("w")>>)>>)>>
    \o (IF global
        THEN <<Declare("y", "INTEGER"), Assignment(Identifier("y"), Literal(Whole(1)))>>
        ELSE <<>>)
    \o <<Call("Outer", IF asParameter THEN <<Literal(Whole(2))>> ELSE <<>>),
          Output(<<Identifier("w")>>)>>

ScopePrograms ==
    {ScopeProgram(kind, asParameter, global) :
        kind \in {"Procedure", "Function"}, asParameter \in BOOLEAN, global \in BOOLEAN}

\* operands of DIV and MOD are -MaxOperand..MaxOperand
MaxOperand == 3

\* the expression the parser builds for an integer written in a program
Integer(n) ==
    IF n < 0
    THEN [type |-> "UnaryOp", operator |-> "-", operand |-> Literal(Whole(-n))]
    ELSE Literal(Whole(n))

\* DECLARE q : INTEGER
\* DECLARE r : INTEGER
\* q <- a DIV b
\* r <- a MOD b
DivModProgram(a, b) ==
    <<Declare("q", "INTEGER"),
      Declare("r", "INTEGER"),
      Assignment(Identifier("q"), BinaryOp("DIV", Integer(a), Integer(b))),
      Assignment(Identifier("r"), BinaryOp("MOD", Integer(a), Integer(b)))>>

DivModPrograms ==
    {DivModProgram(a, b) : a \in -MaxOperand..MaxOperand, b \in -MaxOperand..MaxOperand}

Programs ==
    DivModPrograms \cup ScopePrograms \cup ParameterPrograms \cup ReadWritePrograms \cup ForPrograms \cup EndStepPrograms
    \cup LoopPrograms \cup FunctionPrograms \cup {StrayReturn, CountingRepeat}
    \cup RecursionPrograms \cup CasePrograms \cup RangePrograms \cup PairPrograms
    \cup FilePrograms \cup InputPrograms \cup DebugPrograms

\* new Interpreter(...).executeProgram(ast): the first pass registers the procedures
\* and functions, the second runs the other top-level statements in globalContext
RunInit ==
    /\ ast \in Programs
    /\ source = <<>>
    /\ pc = 0
    /\ variables = EmptyMap
    /\ phase = "run"
    /\ error = "none"
    /\ cells = <<>>
    /\ contexts = <<EmptyMap>>
    /\ frames = <<Block(<<>>, GlobalContext, FALSE, NoCall)>>
    /\ iterationCount = 0
    /\ recursionDepth = 0
    /\ callStack = <<[name |-> "main", line |-> <<1>>, type |-> "main"]>>
    /\ yielded = <<>>
    /\ executed = 0
    /\ at = "dispatch"
    /\ debugMode \in {FALSE} \cup {ast \in DebugPrograms}
    /\ stopped = FALSE
    /\ fileHandles = EmptyMap
    /\ fileWriteOutput \in {TRUE} \cup {ast \notin FilePrograms}
    /\ traceLog = <<>>
    /\ stepCounter = 0
    /\ manager = NoManager
    /\ front = NoFront
    /\ lastState = <<>>

idleVars == <<ram, allocated, allocations, nextFreeAddress, lastOp, holes,
              source, ast, pc, variables, fileWriteOutput, traceLog, stepCounter,
              manager, front, lastState>>

RunNext ==
    \/ ExecutionTimeout /\ UNCHANGED idleVars
    \/ RunPause /\ UNCHANGED idleVars
    \/ handleDebugStep /\ UNCHANGED idleVars
    \/ handleDebugContinue /\ UNCHANGED idleVars
    \/ handleDebugStop /\ UNCHANGED idleVars
    \/ RunDeclare /\ UNCHANGED idleVars
    \/ RunAssignment /\ UNCHANGED idleVars
    \/ RunOutput /\ UNCHANGED idleVars
    \/ RunInput /\ UNCHANGED idleVars
    \/ inputResolves /\ UNCHANGED idleVars
    \/ RunOpenFile /\ UNCHANGED idleVars
    \/ uploadResolves /\ UNCHANGED idleVars
    \/ RunCloseFile /\ UNCHANGED idleVars
    \/ RunReadFile /\ UNCHANGED idleVars
    \/ RunWriteFile /\ UNCHANGED idleVars
    \/ RunIf /\ UNCHANGED idleVars
    \/ RunCase /\ UNCHANGED idleVars
    \/ RunWhile /\ UNCHANGED idleVars
    \/ WhileTest /\ UNCHANGED idleVars
    \/ RunRepeat /\ UNCHANGED idleVars
    \/ RepeatTest /\ UNCHANGED idleVars
    \/ RunFor /\ UNCHANGED idleVars
    \/ ForTest /\ UNCHANGED idleVars
    \/ RunCall /\ UNCHANGED idleVars
    \/ RunReturn /\ UNCHANGED idleVars
    \/ RunUnsupported /\ UNCHANGED idleVars
    \/ BlockEnd /\ UNCHANGED idleVars
    \/ ProcedureEnd /\ UNCHANGED idleVars
    \/ FunctionEnd /\ UNCHANGED idleVars
    \/ SkipDefinition /\ UNCHANGED idleVars
    \/ RunFinish /\ UNCHANGED idleVars

InitRun == MemInit /\ RunInit

SpecRun == InitRun /\ [][RunNext]_vars

RunTerminal == {"done", "runtimeError", "uncaught"}

\* the generator is driven to its end: the caller keeps asking for the next output and
\* the input and step handlers resolve, so a run that can take a step takes one
SpecRunFair == InitRun /\ [][RunNext]_vars /\ WF_vars(RunNext)

(***************************************************************************)
(* Claims about the statement interpreter                                  *)
(***************************************************************************)
\* an evaluation returned the value
Yields(result, value) == result.err = "none" /\ result.value = value

\* two evaluations ended alike: the same error, or the same value
SameResult(a, b) == a.err = b.err /\ (a.err = "none" => a.value = b.value)

\* the interpreter's state after the step
MachineNext ==
    [cells |-> cells', contexts |-> contexts', frames |-> frames',
     recursionDepth |-> recursionDepth', callStack |-> callStack', yielded |-> yielded',
     phase |-> phase', error |-> error', at |-> at', debugMode |-> debugMode',
     stopped |-> stopped', fileHandles |-> fileHandles']

\* index in frames of the innermost running call, 0 at top level
RECURSIVE CallBelow(_)
CallBelow(i) ==
    IF i = 0 THEN 0
    ELSE IF frames[i].kind = "block" /\ frames[i].call.type # "none" THEN i
    ELSE CallBelow(i - 1)

InnermostCall == CallBelow(Len(frames))

\* the call that is running: its kind, its callee's name, the place of the calling
\* statement and the caller's context
RunningCall == frames[InnermostCall].call

\* the ProcedureNode / FunctionNode a call frame is running
Callee(call) ==
    ast[SetMax(Registered(IF call.type = "procedure" THEN "Procedure" ELSE "Function",
                          call.name))]

\* the argument expressions of the call that a call frame is running
Arguments(call) ==
    IF call.type = "procedure"
    THEN Resolve(ast, call.pending).arguments
    ELSE Resolve(ast, call.pending).value.arguments

\* the next step assigns to an identifier, inside a call of one of the given kinds, and
\* the identifier is parameter i of the callee, declared with the given byRef
AssignsParameter(kinds, byRef, i) ==
    /\ AtStatement
    /\ Node.type = "Assignment"
    /\ Node.target.type = "Identifier"
    /\ Node.value.type # "FunctionCall"
    /\ evaluateExpressionIn(Machine, Node.value, Top.context).err = "none"
    /\ InnermostCall # 0
    /\ RunningCall.type \in kinds
    /\ i \in DOMAIN Callee(RunningCall).parameters
    /\ Callee(RunningCall).parameters[i].name = Node.target.name
    /\ Callee(RunningCall).parameters[i].byRef = byRef

\* C11: when a procedure assigns to a BYREF parameter, a read of the caller's
\* argument variable gives the assigned value in the very next state, while the
\* procedure is still running; and when the procedure returns, the caller's variable
\* holds what the parameter held at the end of the body: nothing is copied back.
C11_ByRefImmediate ==
    [][/\ \A i \in 1..2 :
            AssignsParameter({"procedure"}, TRUE, i)
            => /\ phase' = "run"
               /\ Len(frames') >= InnermostCall
               /\ Yields(evaluateIdentifierIn(MachineNext, Arguments(RunningCall)[i],
                                              RunningCall.context),
                         evaluateExpressionIn(Machine, Node.value, Top.context).value)
       /\ (AtBlockEnd /\ Top.call.type = "procedure")
          => /\ cells' = cells
             /\ \A i \in DOMAIN Callee(RunningCall).parameters :
                   Callee(RunningCall).parameters[i].byRef
                   => SameResult(
                          evaluateIdentifierIn(MachineNext, Arguments(RunningCall)[i],
                                               RunningCall.context),
                          evaluateIdentifierIn(
                              Machine,
                              Identifier(Callee(RunningCall).parameters[i].name),
                              Top.context))]_vars

\* a procedure is still running and the caller's x already holds the value the
\* procedure assigned to its BYREF parameter
C11_Witness ==
    /\ phase = "run"
    /\ InnermostCall # 0
    /\ RunningCall.type = "procedure"
    /\ Len(Callee(RunningCall).parameters) = 1
    /\ Callee(RunningCall).parameters[1].byRef
    /\ Top.kind = "block"
    /\ Top.index = 2
    /\ Yields(evaluateIdentifierIn(Machine, Identifier("x"), GlobalContext), Whole(2))

\* C12: an assignment to a BYVAL parameter, in a procedure or in a function, leaves
\* every variable of every other context as it was: the name still denotes the same
\* Variable and the Variable holds the same value. This includes a global variable
\* with the parameter's name.
C12_ByValLocal ==
    [][\A i \in 1..2 :
          AssignsParameter({"procedure", "function"}, FALSE, i)
          => /\ phase' = "run"
             /\ \A c \in 1..(Len(contexts) - 1) :
                   /\ contexts'[c] = contexts[c]
                   /\ \A n \in DOMAIN contexts[c] :
                         cells'[contexts[c][n]] = cells[contexts[c][n]]
             /\ Yields(evaluateIdentifierIn(MachineNext, Node.target, Top.context),
                       evaluateExpressionIn(Machine, Node.value, Top.context).value)]_vars

\* a call is running whose BYVAL parameter x holds the assigned value while the
\* global x still holds its own
C12_Witness ==
    /\ phase = "run"
    /\ InnermostCall # 0
    /\ Len(Callee(RunningCall).parameters) = 1
    /\ ~Callee(RunningCall).parameters[1].byRef
    /\ Callee(RunningCall).parameters[1].name = "x"
    /\ Top.kind = "block"
    /\ Top.index = 2
    /\ Yields(evaluateIdentifierIn(Machine, Identifier("x"), Top.context), Whole(2))
    /\ Yields(evaluateIdentifierIn(Machine, Identifier("x"), GlobalContext), Whole(0))

\* the reads whose outcome is followed across a run
ReadExpressions ==
    {Identifier("x"), Identifier("r"), Identifier("p")}
    \cup {ArrayAccess("a", <<Literal(Whole(i))>>) : i \in 1..2}

NameOf(expr) == IF expr.type = "Identifier" THEN expr.name ELSE expr.array

Readable(m, expr, context) == evaluateExpressionIn(m, expr, context).err = "none"

\* the variable or array an expression reads is declared, and the variable or the
\* array element has not been assigned
Unassigned(m, expr, context) ==
    /\ getVariable(m, NameOf(expr), context) # NoVariable
    /\ IF expr.type = "Identifier"
       THEN ~m.cells[getVariable(m, expr.name, context)].initialized
       ELSE /\ m.cells[getVariable(m, expr.array, context)].type = "ARRAY"
            /\ ~m.cells[getVariable(m, expr.array, context)].value.v[
                   expr.indices[1].value.v \div Scale].initialized

\* the next step executes the statement at Top: the iteration budget is not used up
\* and no step signal is awaited first
WithinBudget ==
    \/ at = "switch"
    \/ at = "dispatch" /\ (Top.sync \/ (~debugMode /\ iterationCount < MAX_ITERATIONS))

\* the next step is OUTPUT of one read
OutputsRead(expr) ==
    /\ AtStatement /\ WithinBudget
    /\ ~Top.sync /\ Node.type = "Output" /\ Node.expressions = <<expr>>

\* the next step assigns a value to the target of one read
AssignsRead(expr) ==
    /\ AtStatement /\ WithinBudget
    /\ Node.type = "Assignment"
    /\ Node.target = expr
    /\ Node.value.type # "FunctionCall"
    /\ evaluateExpressionIn(Machine, Node.value, Top.context).err = "none"
    /\ getVariable(Machine, NameOf(expr), Top.context) # NoVariable

\* the next step is DECLARE of the name, in the context the read is made in
Redeclares(expr, context) ==
    AtStatement /\ WithinBudget /\ Node.type = "Declare" /\ Node.identifier = NameOf(expr)
    /\ Top.context = context

\* a read of a declared and unassigned variable or element is a run-time error, and an
\* assignment makes the read succeed
ReadNeedsAssignment ==
    \A expr \in ReadExpressions :
       /\ (OutputsRead(expr) /\ Unassigned(Machine, expr, Top.context))
          => /\ phase' = "runtimeError"
             /\ error' = IF expr.type = "Identifier"
                         THEN "used before assignment"
                         ELSE "Array element accessed before assignment"
             /\ yielded' = yielded
       /\ AssignsRead(expr)
          => /\ phase' = "run"
             /\ Readable(MachineNext, expr, Top.context)

FloorOf(q) ==
    Scale * (CHOOSE n \in -(MaxEnd + 3)..(MaxEnd + 3) : n * Scale <= q /\ q < (n + 1) * Scale)

\* the loop condition of a FOR with the given end and step, for a loop value
InRange(value, end, step) == IF step > 0 THEN value <= end ELSE value >= end

\* the outputs of a FOR loop whose body is OUTPUT i, over the numbers in values
Outputs(values) == [k \in DOMAIN values |-> Digits(values[k] * Scale)]

\* C14: for a FOR loop with numeric start, end and step, floor(step) # 0, and body
\* OUTPUT i, the k-th output is floor(start) + (k-1)*floor(step), every output
\* satisfies the loop condition against end, and the run is done exactly when the
\* next value fails it; 1 TO 5 STEP 1 and 1 TO 5 STEP 1.5 output 1,2,3,4,5,
\* 5 TO 1 STEP -1.5 outputs 5,3,1.
C14_ForValues ==
    /\ \A declared \in BOOLEAN, start \in ForStarts, end \in ForEnds, step \in CountingSteps :
          ast = ForProgram(declared, start, end, step, OutputBody)
          => /\ \A k \in DOMAIN yielded :
                   /\ yielded[k] = Digits(FloorOf(start) + (k - 1) * FloorOf(step))
                   /\ InRange(FloorOf(start) + (k - 1) * FloorOf(step), end, step)
             /\ phase \in RunTerminal
                => /\ phase = "done"
                   /\ ~InRange(FloorOf(start) + Len(yielded) * FloorOf(step), end, step)
    /\ \A declared \in BOOLEAN :
          phase = "done"
          => /\ ast = ForProgram(declared, Scale, 5 * Scale, Scale, OutputBody)
                => yielded = Outputs(<<1, 2, 3, 4, 5>>)
             /\ ast = ForProgram(declared, 5 * Scale, Scale, -(Scale + Scale \div 2), OutputBody)
                => yielded = Outputs(<<5, 3, 1>>)
             /\ ast = ForProgram(declared, Scale, 5 * Scale, Scale + Scale \div 2, OutputBody)
                => yielded = Outputs(<<1, 2, 3, 4, 5>>)

\* FOR i <- 5 TO 1 STEP -1.5 has finished after the outputs 5, 3, 1
C14_Witness ==
    /\ phase = "done"
    /\ ast = ForProgram(FALSE, 5 * Scale, Scale, -(Scale + Scale \div 2), OutputBody)
    /\ yielded = Outputs(<<5, 3, 1>>)

\* a FOR loop has run its body at least once and is about to add its increment
AfterForBody == phase = "run" /\ frames # <<>> /\ Top.kind = "for" /\ Top.entered

\* the loop goes on with another run of its body
ForGoesOn == phase' = "run" /\ Len(frames') = Len(frames) + 1

\* C15 as stated: with 0 < |step| < 1, of either sign, the loop variable keeps its
\* value from one iteration to the next and the loop goes on.
C15_FractionalStepDrains ==
    [][(AfterForBody /\ Top.step # 0 /\ -Scale < Top.step /\ Top.step < Scale)
       => /\ cells'[Top.variable].value = cells[Top.variable].value
          /\ ForGoesOn]_vars

\* C15 amended: with 0 < step < 1 the increment is zero: the loop variable keeps its
\* value and the loop goes on; with -1 < step < 0 the increment is floor(step) = -1:
\* the loop variable goes down by one and the loop goes on only while it is >= end.
C15_PositiveFractionDrains ==
    [][AfterForBody
       => /\ (0 < Top.step /\ Top.step < Scale)
             => /\ cells'[Top.variable].value = cells[Top.variable].value
                /\ ForGoesOn
          /\ (-Scale < Top.step /\ Top.step < 0)
             => /\ cells'[Top.variable].value = Num(cells[Top.variable].value.v - Scale)
                /\ ForGoesOn <=> cells[Top.variable].value.v - Scale >= Top.end]_vars

\* FOR i <- 1 TO 3 STEP 0.5 has run its body fifty times and i is still 1
C15_Witness ==
    /\ AfterForBody
    /\ Top.step = Scale \div 2
    /\ iterationCount = 52
    /\ cells[Top.variable].value = Whole(1)

\* the next step is the dispatch of a FOR whose start and end are numbers and whose
\* step is the number 0
EntersForWithZeroStep ==
    /\ AtStatement
    /\ Node.type = "For"
    /\ evaluateExpressionIn(Machine, Node.start, Top.context).err = "none"
    /\ typeof(evaluateExpressionIn(Machine, Node.start, Top.context).value) = "number"
    /\ evaluateExpressionIn(Machine, Node.end, Top.context).err = "none"
    /\ typeof(evaluateExpressionIn(Machine, Node.end, Top.context).value) = "number"
    /\ Yields(evaluateExpressionIn(Machine, Node.step, Top.context), Whole(0))

\* C16: the dispatch of a FOR whose STEP evaluates to 0 ends the run with the STEP
\* error; no Variable that existed is assigned, a loop variable created by the
\* dispatch stays unassigned, nothing is output and no statement of the body runs.
C16_ZeroStepRejected ==
    [][EntersForWithZeroStep
       => /\ phase' = "runtimeError"
          /\ error' = "FOR loop STEP cannot be zero"
          /\ frames' = <<>>
          /\ yielded' = yielded
          /\ iterationCount' = IF Top.sync THEN iterationCount ELSE iterationCount + 1
          /\ \A c \in DOMAIN cells : cells'[c] = cells[c]
          /\ \A c \in DOMAIN cells' \ DOMAIN cells : ~cells'[c].initialized]_vars

\* FOR i <- ... STEP 0 with body OUTPUT i has ended with the STEP error: the declared
\* i still holds 7 and nothing was output
C16_Witness ==
    /\ phase = "runtimeError"
    /\ error = "FOR loop STEP cannot be zero"
    /\ ast[Len(ast)].type = "For"
    /\ ast[Len(ast)].body = OutputBody
    /\ Yields(evaluateIdentifierIn(Machine, Identifier("i"), GlobalContext), Whole(7))
    /\ yielded = <<>>

\* C17: in FOR i <- 1 TO n STEP s whose body changes n and s, the outputs are those of
\* the loop with the values n and s had on entry: the k-th output is 1 + (k-1)*step0,
\* each is <= end0, and the run is done exactly when the next value exceeds end0.
C17_BoundsEvaluatedOnce ==
    \A end0 \in 1..MaxEnd, step0 \in 1..2, dn \in Deltas, ds \in Deltas :
       ast = EndStepProgram(end0, step0, dn, ds)
       => /\ \A k \in DOMAIN yielded :
                /\ yielded[k] = Digits((1 + (k - 1) * step0) * Scale)
                /\ 1 + (k - 1) * step0 <= end0
          /\ phase \in RunTerminal
             => /\ phase = "done"
                /\ 1 + Len(yielded) * step0 > end0

\* FOR i <- 1 TO n STEP s with n = 3, s = 1 on entry has finished after the outputs
\* 1, 2, 3 although its body raised n to 6 and s to 4
C17_Witness ==
    /\ phase = "done"
    /\ ast = EndStepProgram(3, 1, 1, 1)
    /\ yielded = Outputs(<<1, 2, 3>>)
    /\ Yields(evaluateIdentifierIn(Machine, Identifier("n"), GlobalContext), Whole(6))
    /\ Yields(evaluateIdentifierIn(Machine, Identifier("s"), GlobalContext), Whole(4))


\* the step dispatches a statement: executeNode or executeSyncNode is entered and
\* reaches its switch
Dispatches == executed' = executed + 1

\* the next statement of the innermost statement loop is handed to executeNode or
\* executeSyncNode
AboutToDispatch == AtStatement /\ Node.type \notin {"Procedure", "Function"}

\* C18: every statement dispatch, in top-level code, in procedure bodies and in
\* function bodies, increments iterationCount; a dispatch with the count already at
\* MAX_ITERATIONS raises 'Execution timeout: Possible infinite loop' instead of
\* executing; no run executes more than MAX_ITERATIONS statements.
C18_EveryDispatchCounted ==
    [][/\ Dispatches => iterationCount' = iterationCount + 1
       /\ (AboutToDispatch /\ iterationCount >= MAX_ITERATIONS)
          => /\ phase' = "runtimeError"
             /\ error' = "Execution timeout: Possible infinite loop"
       /\ executed' <= MAX_ITERATIONS]_vars


\* C19: every run ends, with completion or with an error: a loop that would not end
\* on its own, at top level, in a procedure or in a function, with any body, is
\* halted by the iteration-budget error.  (A run stopped from the debugger is the
\* subject of C28.)
C19_EveryRunTerminates == <>(phase \in RunTerminal \/ stopped)


\* the step ends the run
EndsRun == phase = "run" /\ phase' # "run"

RunningCalls == ActiveCalls(frames, {"procedure", "function"})

\* C21: at every point the call stack holds the main frame and one frame per running
\* procedure or function call, and recursionDepth is the number of running calls.
C21_CallStackMatchesCalls ==
    /\ Len(callStack) = 1 + RunningCalls
    /\ recursionDepth = RunningCalls


\* the program is a selector program: its statement is ast[5], or the first statement
\* of the function ast[1]
InFunction == Len(ast) = 7 /\ ast[1].type = "Function" /\ Len(ast[1].body) = 2

TheStatement == IF InFunction THEN ast[1].body[1] ELSE ast[5]

TheSelector == IF InFunction THEN ast[4].value ELSE ast[3].value

\* the program is a CASE program whose selector is a number
IsCaseProgram ==
    /\ (InFunction \/ Len(ast) = 6)
    /\ TheStatement.type = "Case"
    /\ TheStatement.expression = Identifier("m")
    /\ TheSelector.type = "Literal"

\* the run of a selector program has ended with r holding value
EndsWithR(value) ==
    /\ phase = "done"
    /\ Yields(evaluateIdentifierIn(Machine, Identifier("r"), GlobalContext), value)
    /\ yielded = <<Digits(value.v)>>

\* a case block matches the number q / Scale: its value is that number, or the number
\* lies between the bounds of its range, the bounds included
BlockMatches(q, block) ==
    IF block.value # Missing
    THEN block.value.value.v = q
    ELSE block.rangeStart.value.v <= q /\ q <= block.rangeEnd.value.v

\* the case blocks of a CASE statement that match
Matching(node, q) == {i \in DOMAIN node.cases : BlockMatches(q, node.cases[i])}

\* what the block that is to run adds to r: the mark of the first matching case
\* block, the mark of OTHERWISE if no case block matches and OTHERWISE is there, else
\* nothing
MarkToRun(node, q) ==
    IF Matching(node, q) # {}
    THEN Marks[SetMin(Matching(node, q))]
    ELSE IF node.otherwiseBlock.present THEN OtherwiseMark ELSE 0

\* C22: a CASE statement runs the statements of the first case block that matches,
\* and of no other block; it runs the OTHERWISE block exactly if there is one and no
\* case block matches; it never raises an error for matching or not matching.
C22_FirstMatchOnly ==
    IsCaseProgram
    => /\ phase # "runtimeError"
       /\ phase = "done"
          => EndsWithR(Whole(MarkToRun(TheStatement, TheSelector.value.v)))

\* two case blocks match the selector and only the first has run
C22_Witness ==
    /\ IsCaseProgram
    /\ Matching(TheStatement, TheSelector.value.v) = {1, 2}
    /\ TheStatement.otherwiseBlock.present
    /\ EndsWithR(Whole(Marks[1]))

\* the CASE program with the range 50 TO 59 and the selector q / Scale
FiftyToFiftyNine(q) == RangeProgram(Literal(Num(q)))

\* C23: a case block `lo TO hi` matches the values from lo to hi, both included, and
\* no other: 50 TO 59 matches 50 and 59 and does not match 49 or 60.
C23_RangeInclusive ==
    /\ (IsCaseProgram /\ TheStatement.cases[1].value = Missing /\ phase = "done")
       => LET q == TheSelector.value.v
              lo == TheStatement.cases[1].rangeStart.value.v
              hi == TheStatement.cases[1].rangeEnd.value.v
          IN  EndsWithR(Whole(Marks[1])) <=> (lo <= q /\ q <= hi)
    /\ \A q \in RangeNumbers :
          (ast = FiftyToFiftyNine(q) /\ phase = "done")
          => IF q \in {RangeStart * Scale, (RangeStart + 5) * Scale, RangeEnd * Scale}
             THEN EndsWithR(Whole(Marks[1]))
             ELSE EndsWithR(Whole(OtherwiseMark))

\* the selector 59 has run the block of 50 TO 59
C23_Witness ==
    /\ ast = FiftyToFiftyNine(RangeEnd * Scale)
    /\ EndsWithR(Whole(Marks[1]))


\* the program is a pair program, and the call of F comes before the statements at
\* top level
IsPairProgram ==
    /\ Len(ast) = 8
    /\ ast[1].type = "Function"
    /\ ast[2] = Declare("f", "INTEGER")

FunctionFirst == ast[3].type = "Assignment"

\* the value a global variable holds, undefined if it is not assigned
Global(name) ==
    IF name \in DOMAIN contexts[GlobalContext]
       /\ cells[contexts[GlobalContext][name]].initialized
    THEN cells[contexts[GlobalContext][name]].value
    ELSE undefined

\* C24: a statement run from the same variable state through executeNode and through
\* executeSyncNode has the same outcome. When the function body has completed and
\* returned r, the same statements at top level complete too; and when both have
\* completed they leave the same value in r.
C24_PathsAgree ==
    (IsPairProgram /\ phase \in RunTerminal)
    => /\ (FunctionFirst /\ Global("f") # undefined) => phase = "done"
       /\ phase = "done" => Global("f") = Global("r")


\* the statements that yield a line or await a handler
SuspendingTypes == {"Output", "Input", "OpenFile", "CloseFile", "ReadFile", "WriteFile"}

\* a function body is running
FunctionRunning == ActiveCalls(frames, {"function"}) > 0

\* C25: the dispatch of OUTPUT, INPUT or a file statement in a function body ends the
\* run with 'Unsupported statement in function': no line is yielded, no handler is
\* awaited and no file is touched; while a function body runs the generator yields
\* nothing and is never suspended.
C25_FunctionsNeverSuspend ==
    [][/\ (AtStatement /\ Top.sync /\ Node.type \in SuspendingTypes)
          => /\ phase' = "runtimeError"
             /\ error' = "Unsupported statement in function"
             /\ yielded' = yielded
             /\ fileHandles' = fileHandles
             /\ at' = "dispatch"
       /\ FunctionRunning
          => /\ yielded' = yielded
             /\ at = "dispatch"
             /\ at' = "dispatch"]_vars

\* FUNCTION F() with the body INPUT x was called and the run ended with the error,
\* nothing yielded
C25_Witness ==
    /\ ast = FunctionProgram(<<Input(Identifier("x"))>>)
    /\ phase = "runtimeError"
    /\ error = "Unsupported statement in function"
    /\ yielded = <<>>
    /\ at = "dispatch"


\* the step runs the handler of the statement at Top, one of the types, to its end:
\* the statement is done and the run goes on
Finishes(types) ==
    /\ AtStatement
    /\ ~Top.sync
    /\ Node.type \in types
    /\ at \in {"input", "upload"} \/ WithinBudget
    /\ phase' = "run"
    /\ at' = "dispatch"

\* the step yields one line: it is appended to the lines yielded before
YieldsALine ==
    /\ Len(yielded') = Len(yielded) + 1
    /\ SubSeq(yielded', 1, Len(yielded)) = yielded

TheLine == yielded'[Len(yielded')]

\* the file a file statement names
TheFile == filenameOf(Machine, Node, Top.context).value

\* C26 as stated: the generator yields one line for every OUTPUT executed, for every
\* WRITEFILE executed with the echo on and for every INPUT executed, in the order of
\* execution, and no other line.
C26_OutputsWritesInputsOnly ==
    [][/\ yielded' = yielded \/ YieldsALine
       /\ YieldsALine <=> \/ Finishes({"Output", "Input"})
                          \/ Finishes({"WriteFile"}) /\ fileWriteOutput]_vars

\* C26 amended: ... one line for every OUTPUT, INPUT, OPENFILE, CLOSEFILE and READFILE
\* executed and for every WRITEFILE executed with the echo on, in the order of
\* execution, and no other line; OPENFILE yields `Opened file 'f' in MODE mode`,
\* CLOSEFILE yields `Closed file 'f'`, with the number of lines written for a file
\* opened for writing, and READFILE yields the line it read.
C26_OneLinePerYieldingStatement ==
    [][/\ yielded' = yielded \/ YieldsALine
       /\ YieldsALine <=> \/ Finishes({"Output", "Input", "OpenFile", "CloseFile",
                                       "ReadFile"})
                          \/ Finishes({"WriteFile"}) /\ fileWriteOutput
       /\ Finishes({"OpenFile"}) => TheLine = openedLine(TheFile, Node.mode)
       /\ Finishes({"CloseFile"}) => TheLine = closedLine(TheFile, fileHandles[TheFile])
       /\ Finishes({"ReadFile"})
          => TheLine = fileHandles[TheFile].data[fileHandles[TheFile].position + 1]
       /\ Finishes({"WriteFile"})
          => /\ fileHandles'[TheFile].data =
                   Append(fileHandles[TheFile].data,
                          valueToString(evaluateExpressionIn(Machine, Node.data,
                                                             Top.context).value))
             /\ fileWriteOutput
                => TheLine = writtenLine(TheFile,
                                        fileHandles'[TheFile].data[
                                            Len(fileHandles'[TheFile].data)])]_vars

\* OPENFILE "log" FOR WRITE, WRITEFILE "log", x and CLOSEFILE "log" have run with the
\* echo on and three lines were yielded
C26_Witness ==
    /\ ast = FileProgram(OpenFile(Log, "WRITE"), WriteFile(Log, Identifier("x")),
                         CloseFile(Log))
    /\ phase = "done"
    /\ fileWriteOutput
    /\ yielded = <<openedLine(Chars("log"), "WRITE"),
                   writtenLine(Chars("log"), Digits(Scale)),
                   closedLine(Chars("log"), FileHandle("WRITE", <<Digits(Scale)>>, 1))>>


\* the step executes nothing: no statement is entered or left, no variable, file or
\* output changes
Unexecuted ==
    /\ frames' = frames
    /\ contexts' = contexts
    /\ cells' = cells
    /\ yielded' = yielded
    /\ fileHandles' = fileHandles
    /\ phase' = phase

\* in debug mode a statement of top-level code or of a procedure body is handed to
\* executeNode within the budget
DebugDispatch ==
    /\ debugMode
    /\ AtStatement
    /\ ~Top.sync
    /\ Node.type \notin {"Procedure", "Function"}
    /\ at = "dispatch"
    /\ iterationCount < MAX_ITERATIONS

\* C27: in debug mode every statement of top-level code and of procedure bodies is
\* preceded by one await of the step handler, made with the line of the top callStack
\* frame set to the statement's line; nothing executes while the step signal is
\* pending; the statement then executes without a second await; the step handler is
\* never awaited while a function body runs.
C27_StepBeforeEachStatement ==
    [][/\ DebugDispatch
          => /\ at' = "step"
             /\ Len(callStack') = Len(callStack)
             /\ callStack'[Len(callStack')].line = NodePlace
             /\ Unexecuted
       /\ at = "step"
          => /\ at' = "switch"
             /\ callStack' = callStack
             /\ Unexecuted
       /\ at = "switch" => (at' \in {"input", "upload"} \/ (at' = "dispatch" /\ ~Unexecuted))
       /\ at \in {"input", "upload"} => at' = "dispatch"
       /\ at' = "step" => DebugDispatch
       /\ (FunctionRunning \/ ActiveCalls(frames', {"function"}) > 0)
          => at' \notin {"step", "switch"}]_vars

\* the run is paused before the first statement of PROCEDURE P, the frame of P holding
\* that statement's line
C27_Witness ==
    /\ debugMode
    /\ at = "step"
    /\ Len(callStack) = 2
    /\ callStack[2].name = "P"
    /\ Top.index = 1
    /\ callStack[2].line = NodePlace


\* C28: a run stopped from the debugger during a pause goes on to its end: once
\* handleDebugStop has resolved the pending step promise the run completes or ends
\* with an error, it does not stay suspended at a later statement.
C28_StoppedRunCompletes == stopped ~> (phase \in RunTerminal)


\* the step raises a run-time error
Raises == phase = "run" /\ phase' = "runtimeError"

\* C29: a run-time error ends the run: the error leaves the generator with every
\* active block, loop and call abandoned, no step follows it, so that no statement
\* executes and no line is yielded after it, and the lines yielded, the data of every
\* file, the memory arena and the trace are what they were when the error was raised.
C29_ErrorEndsRun ==
    [][/\ phase # "runtimeError"
       /\ Raises
          => /\ error' # "none"
             /\ frames' = <<>>
             /\ at' = "dispatch"
             /\ yielded' = yielded
             /\ \A f \in DOMAIN fileHandles :
                   /\ f \in DOMAIN fileHandles'
                   /\ fileHandles'[f].data = fileHandles[f].data
             /\ memVars' = memVars
             /\ traceLog' = traceLog]_vars

\* OPENFILE "log" FOR WRITE and WRITEFILE "log", x have run and READFILE "log", x has
\* raised its error: the two lines yielded and the line written are still there
C29_Witness ==
    /\ phase = "runtimeError"
    /\ error = "not opened for reading"
    /\ frames = <<>>
    /\ Len(yielded) = 2
    /\ Chars("log") \in DOMAIN fileHandles
    /\ fileHandles[Chars("log")].data = <<Digits(Scale)>>


(***************************************************************************)
(* MemoryTracer (src/src/interpreter/tracer.ts).  An entry is its step,    *)
(* operation and line; the timestamp and the data fields are copied into   *)
(* the entry and read by nothing here.                                     *)
(***************************************************************************)
\* the operations the log methods record
Operations ==
    {"DECLARE", "WRITE", "READ", "ALLOCATE", "FREE", "ADDRESS_OF", "DEREFERENCE",
     "POINTER_ASSIGN"}

\* longest trace log
MaxEntries == 3

\* source lines are 1..MaxLine
MaxLine == 2

\* milliseconds since startTime at which an entry is added
Elapsed == {0, 1}

\* the data of an entry that carries none of the optional fields
NoData == [field \in {} |-> 0]

\* addEntry with step: this.stepCounter++
addEntryPostIncrement(operation, line, data, now) ==
    /\ traceLog' = Append(traceLog, data @@ [step |-> stepCounter, operation |-> operation,
                                             line |-> line, timestamp |-> now])
    /\ stepCounter' = stepCounter + 1

\* MemoryTracer.addEntry: traceLog.push({step: ++this.stepCounter, operation, line,
\* timestamp: Date.now() - this.startTime, ...data}); now is Date.now() - this.startTime
addEntry(operation, line, data, now) ==
    /\ stepCounter' = stepCounter + 1
    /\ traceLog' = Append(traceLog, data @@ [step |-> stepCounter', operation |-> operation,
                                             line |-> line, timestamp |-> now])

\* MemoryTracer.clear
clear ==
    /\ traceLog' = <<>>
    /\ stepCounter' = 0

\* Date.now() - startTime when the last entry was added: the clock does not run backwards
lastElapsed == IF traceLog = <<>> THEN 0 ELSE traceLog[Len(traceLog)].timestamp

tracedVars ==
    <<ram, allocated, allocations, nextFreeAddress, lastOp, holes,
      source, ast, pc, phase, error, variables,
      cells, contexts, frames, iterationCount, recursionDepth, callStack, yielded,
      executed, at, debugMode, stopped, fileHandles, fileWriteOutput, manager, front, lastState>>

DoAddEntry ==
    /\ Len(traceLog) < MaxEntries
    /\ \E operation \in Operations, line \in 1..MaxLine, now \in Elapsed :
          /\ now >= lastElapsed
          /\ addEntry(operation, line, NoData, now)
    /\ UNCHANGED tracedVars

DoClear == clear /\ UNCHANGED tracedVars

TraceNext == DoAddEntry \/ DoClear

\* new MemoryTracer(), then any sequence of addEntry and clear
SpecTrace == Init /\ [][TraceNext]_vars

\* C30: the k-th entry of the trace log has step k: the steps start at 1 and go up by
\* one from each entry to the next, and stepCounter is the step of the last entry.
C30_StepsCountEntries ==
    /\ stepCounter = Len(traceLog)
    /\ \A k \in DOMAIN traceLog : traceLog[k].step = k
    /\ \A k \in DOMAIN traceLog :
          k > 1 => traceLog[k].step > traceLog[k - 1].step

\* three entries were added, the last with step 3
C30_Witness ==
    /\ Len(traceLog) = 3
    /\ traceLog[3].step = 3
    /\ traceLog[1].step = 1

(***************************************************************************)
(* MemoryStateManager (src/src/components/VisualMemory/                    *)
(* MemoryStateManager.tsx), a consumer of the trace log.  It rebuilds the  *)
(* memory picture of frame n by replaying entries 0..n and keeps the       *)
(* pictures it has built in stateCache.  Frames count from 0: frame i is   *)
(* traceLog[i + 1] here.  A value that may be undefined is <<>> when it    *)
(* is undefined and <<v>> otherwise; an optional field of an entry that is *)
(* absent is not in the entry's DOMAIN.                                    *)
(***************************************************************************)
\* Map.set
mapSet(map, key, value) ==
    [k \in DOMAIN map \cup {key} |-> IF k = key THEN value ELSE map[k]]

\* Map.get: undefined for a key the map does not hold
mapGet(map, key) == IF key \in DOMAIN map THEN map[key] ELSE <<>>

\* Map.delete
mapDelete(map, key) == [k \in DOMAIN map \ {key} |-> map[k]]

\* object.field, undefined when the object has no such field
field(object, name) == IF name \in DOMAIN object THEN <<object[name]>> ELSE <<>>

\* longest trace log given to a MemoryStateManager
MaxFrames == 2

\* the constructor's maxCacheSize (50 when omitted)
maxCacheSize == 2

\* frames asked of getStateAtFrame: those of the longest log and one past its last
FrameNumbers == 0..MaxFrames

\* the variables of the finished run, as the constructor receives them
ManagerVariables ==
    [x |-> [type |-> "INTEGER", value |-> <<5>>],
     a |-> [type |-> "ARRAY", elementType |-> "INTEGER",
            dimensions |-> <<[lower |-> 1, upper |-> 2]>>, value |-> <<1, 2>>]]

\* operations with their data, as the evaluator hands them to addEntry
Traced ==
    {[operation |-> "DECLARE", data |-> [address |-> 1024, variable |-> "x"]],
     [operation |-> "DECLARE", data |-> [address |-> 1028, variable |-> "a"]],
     [operation |-> "WRITE", data |-> [address |-> 1024, value |-> 7, variable |-> "x",
                                       metadata |-> [type |-> "INTEGER"]]],
     [operation |-> "ALLOCATE", data |-> [address |-> 1028,
                                          metadata |-> [size |-> 2, type |-> "INTEGER"]]],
     [operation |-> "FREE", data |-> [address |-> 1028]],
     [operation |-> "ADDRESS_OF", data |-> [address |-> 1024, pointerAddress |-> 1036,
                                            variable |-> "p"]],
     [operation |-> "POINTER_ASSIGN", data |-> [address |-> 1028, pointerAddress |-> 1036,
                                                metadata |-> [type |-> "INTEGER"]]],
     [operation |-> "READ", data |-> [address |-> 1024, variable |-> "x"]],
     [operation |-> "DEREFERENCE", data |-> [address |-> 1024, pointerAddress |-> 1036]]}

\* MemoryStateManager.getDataTypeSize
getDataTypeSize(dataType) ==
    CASE dataType \in {"INTEGER", "POINTER_TO_INTEGER", "POINTER_TO_REAL", "POINTER_TO_CHAR",
                       "VOID_POINTER"} -> 4
      [] dataType = "REAL" -> 8
      [] dataType = "CHAR" -> 1
      [] dataType = "BOOLEAN" -> 1
      [] dataType = "STRING" -> 32
      [] OTHER -> 4

\* the snapshot getStateAtFrame starts from when no lower frame is cached
emptyState(managerVariables) ==
    [memoryState |-> EmptyMap, memoryMetadata |-> EmptyMap, variableAddresses |-> EmptyMap,
     variables |-> managerVariables, allocations |-> <<>>]

\* dimensions.reduce((acc, dim) => acc * (dim.upper - dim.lower + 1), 1)
RECURSIVE totalElements(_)
totalElements(dimensions) ==
    IF dimensions = <<>> THEN 1
    ELSE (dimensions[1].upper - dimensions[1].lower + 1) * totalElements(Tail(dimensions))

\* the loop that initialises the elements of a declared array, from element i on
RECURSIVE initialiseElements(_, _, _, _, _)
initialiseElements(memoryState, variable, address, elementSize, i) ==
    IF i >= totalElements(variable.dimensions) THEN memoryState
    ELSE initialiseElements(
             mapSet(memoryState, address + i * elementSize,
                    IF "value" \in DOMAIN variable /\ i + 1 \in DOMAIN variable.value
                    THEN <<variable.value[i + 1]>> ELSE <<>>),
             variable, address, elementSize, i + 1)

\* allocations.findIndex(alloc => alloc.address === address), 0 when there is none
findIndex(allocs, address) ==
    IF \E i \in DOMAIN allocs : allocs[i].address = address
    THEN CHOOSE i \in DOMAIN allocs :
             /\ allocs[i].address = address
             /\ \A j \in 1..(i - 1) : allocs[j].address # address
    ELSE 0

\* allocations.splice(index, 1)
splice(allocs, index) ==
    [i \in 1..(Len(allocs) - 1) |-> IF i < index THEN allocs[i] ELSE allocs[i + 1]]

\* the loop of the FREE case: memoryState.delete(address + i) for i below size
RECURSIVE deleteRange(_, _, _)
deleteRange(memoryState, address, size) ==
    IF size <= 0 THEN memoryState
    ELSE deleteRange(mapDelete(memoryState, address + size - 1), address, size - 1)

\* MemoryStateManager.processOperation: the snapshot after the operation, and the
\* operation as the call leaves it (the WRITE and POINTER_ASSIGN cases write into its
\* metadata)
processOperation(operation, state) ==
    LET has(name) == name \in DOMAIN operation
        unchanged == [state |-> state, operation |-> operation]
    IN  CASE operation.operation = "DECLARE" ->
                 IF has("address") /\ has("variable")
                    /\ operation.variable \in DOMAIN state.variables
                 THEN LET variable == state.variables[operation.variable]
                          declared == [state EXCEPT !.variableAddresses =
                                           mapSet(@, operation.variable, operation.address)]
                      IN  IF variable.type # "ARRAY"
                          THEN [state |-> [declared EXCEPT
                                    !.memoryState = mapSet(@, operation.address, variable.value),
                                    !.allocations = Append(@,
                                        [address |-> operation.address,
                                         size |-> getDataTypeSize(variable.type),
                                         type |-> variable.type,
                                         variable |-> operation.variable])],
                                operation |-> operation]
                          ELSE IF "dimensions" \in DOMAIN variable
                                  /\ "elementType" \in DOMAIN variable
                          THEN LET elementSize == getDataTypeSize(variable.elementType)
                                   totalSize == elementSize * totalElements(variable.dimensions)
                               IN  [state |-> [declared EXCEPT
                                        !.allocations = Append(@,
                                            [address |-> operation.address,
                                             size |-> totalSize,
                                             type |-> variable.type,
                                             variable |-> operation.variable]),
                                        !.memoryState = initialiseElements(@, variable,
                                            operation.address, elementSize, 0)],
                                    operation |-> operation]
                          ELSE [state |-> declared, operation |-> operation]
                 ELSE unchanged
          [] operation.operation = "WRITE" ->
                 IF has("address")
                 THEN LET oldValue == mapGet(state.memoryState, operation.address)
                      IN  [state |-> [state EXCEPT !.memoryState =
                                          mapSet(@, operation.address,
                                                 IF has("value") THEN <<operation.value>>
                                                 ELSE <<>>)],
                           operation |->
                               IF has("metadata")
                               THEN [operation EXCEPT !.metadata =
                                        mapSet(@, "oldValue", oldValue)]
                               ELSE operation]
                 ELSE unchanged
          [] operation.operation = "ALLOCATE" ->
                 IF has("address")
                 THEN LET metadata == IF has("metadata") THEN operation.metadata ELSE NoData
                          size == IF "size" \in DOMAIN metadata /\ metadata.size # 0
                                  THEN metadata.size ELSE 1
                          type == IF "type" \in DOMAIN metadata THEN metadata.type
                                  ELSE "ALLOCATED"
                      IN  [state |-> [state EXCEPT !.allocations = Append(@,
                                          [address |-> operation.address, size |-> size,
                                           type |-> type] @@
                                          (IF has("variable")
                                           THEN [variable |-> operation.variable]
                                           ELSE NoData))],
                           operation |-> operation]
                 ELSE unchanged
          [] operation.operation = "FREE" ->
                 IF has("address")
                 THEN LET index == findIndex(state.allocations, operation.address)
                          spliced == IF index # 0 THEN splice(state.allocations, index)
                                     ELSE state.allocations
                          again == findIndex(spliced, operation.address)
                      IN  [state |-> [state EXCEPT
                                !.allocations = spliced,
                                !.memoryState =
                                    IF again # 0
                                    THEN deleteRange(@, operation.address, spliced[again].size)
                                    ELSE @],
                           operation |-> operation]
                 ELSE unchanged
          [] operation.operation = "ADDRESS_OF" ->
                 IF has("pointerAddress") /\ has("address") /\ has("variable")
                 THEN [state |-> [state EXCEPT
                           !.variableAddresses =
                               mapSet(@, operation.variable, operation.pointerAddress),
                           !.memoryState =
                               mapSet(@, operation.pointerAddress, <<operation.address>>)],
                       operation |-> operation]
                 ELSE unchanged
          [] operation.operation = "POINTER_ASSIGN" ->
                 IF has("pointerAddress") /\ has("address")
                 THEN LET oldTarget == mapGet(state.memoryState, operation.pointerAddress)
                      IN  [state |-> [state EXCEPT !.memoryState =
                                          mapSet(@, operation.pointerAddress,
                                                 <<operation.address>>)],
                           operation |->
                               IF has("metadata")
                               THEN [operation EXCEPT !.metadata =
                                        mapSet(@, "oldTarget", oldTarget)]
                               ELSE operation]
                 ELSE unchanged
          [] operation.operation = "READ" ->
                 IF has("address")
                 THEN [state |-> [state EXCEPT !.memoryMetadata =
                           mapSet(@, <<operation.address, "last_read">>, operation.timestamp)],
                       operation |-> operation]
                 ELSE unchanged
          [] operation.operation = "DEREFERENCE" ->
                 IF has("pointerAddress") /\ has("address")
                 THEN [state |-> [state EXCEPT !.memoryMetadata =
                           mapSet(@, <<operation.pointerAddress, "last_deref">>,
                                  operation.address)],
                       operation |-> operation]
                 ELSE unchanged
          [] OTHER -> unchanged

\* MemoryStateManager.processOperations: the entries of frames fromFrame..toFrame applied
\* in order to startState; the result is the snapshot and the log as the calls of
\* processOperation leave its entries
RECURSIVE processOperations(_, _, _, _)
processOperations(log, startState, fromFrame, toFrame) ==
    IF fromFrame <= toFrame /\ fromFrame < Len(log)
    THEN LET step == processOperation(log[fromFrame + 1], startState)
         IN  processOperations([log EXCEPT ![fromFrame + 1] = step.operation], step.state,
                               fromFrame + 1, toFrame)
    ELSE [state |-> startState, traceLog |-> log]

\* Array.from(stateCache.keys()).sort((a, b) => a - b).slice(0, count)
RECURSIVE oldestFrames(_, _)
oldestFrames(cached, count) ==
    IF count <= 0 \/ cached = {} THEN {}
    ELSE LET oldest == CHOOSE f \in cached : \A g \in cached : f <= g
         IN  {oldest} \cup oldestFrames(cached \ {oldest}, count - 1)

\* MemoryStateManager.cacheState
cacheState(m, frameNumber, state) ==
    LET evicted == IF Cardinality(DOMAIN m.stateCache) >= m.maxCacheSize
                   THEN oldestFrames(DOMAIN m.stateCache, m.maxCacheSize \div 2)
                   ELSE {}
        kept == [f \in DOMAIN m.stateCache \ evicted |-> m.stateCache[f]]
    IN  [m EXCEPT !.stateCache = mapSet(kept, frameNumber, state)]

\* the closest cached frame below frameNumber and not below 0, or -1
startFrameOf(m, frameNumber) ==
    LET below == {i \in DOMAIN m.stateCache : 0 <= i /\ i < frameNumber}
    IN  IF below = {} THEN -1 ELSE CHOOSE i \in below : \A j \in below : j <= i

\* getStateAtFrame replaying from the cached frame itself, not from the frame after it
getStateAtFrameFromStart(m, frameNumber) ==
    IF frameNumber \in DOMAIN m.stateCache
    THEN [manager |-> m, state |-> m.stateCache[frameNumber]]
    ELSE LET startFrame == startFrameOf(m, frameNumber)
             startState == IF startFrame = -1 THEN emptyState(m.variables)
                           ELSE m.stateCache[startFrame]
             final == processOperations(m.traceLog, startState, Max2(startFrame, 0),
                                        frameNumber)
         IN  [manager |-> cacheState([m EXCEPT !.traceLog = final.traceLog], frameNumber,
                                     final.state),
              state |-> final.state]

\* MemoryStateManager.getStateAtFrame: the manager after the call and the snapshot returned
getStateAtFrame(m, frameNumber) ==
    IF frameNumber \in DOMAIN m.stateCache
    THEN [manager |-> m, state |-> m.stateCache[frameNumber]]
    ELSE LET startFrame == startFrameOf(m, frameNumber)
             startState == IF startFrame = -1 THEN emptyState(m.variables)
                           ELSE m.stateCache[startFrame]
             final == processOperations(m.traceLog, startState, startFrame + 1, frameNumber)
         IN  [manager |-> cacheState([m EXCEPT !.traceLog = final.traceLog], frameNumber,
                                     final.state),
              state |-> final.state]

\* new MemoryStateManager(traceLog, variables, maxCacheSize)
MemoryStateManager(log, managerVariables, size) ==
    [traceLog |-> log, variables |-> managerVariables, stateCache |-> EmptyMap,
     maxCacheSize |-> size, shared |-> TRUE]

\* MemoryStateManager.clearCache
clearCache(m) == [m EXCEPT !.stateCache = EmptyMap]

\* MemoryStateManager.updateTraceLog(newTraceLog), newVariables omitted
updateTraceLog(m, newTraceLog) == clearCache([m EXCEPT !.traceLog = newTraceLog,
                                                       !.shared = TRUE])

framedVars ==
    <<ram, allocated, allocations, nextFreeAddress, lastOp, holes,
      source, ast, pc, phase, error, variables,
      cells, contexts, frames, iterationCount, recursionDepth, callStack, yielded,
      executed, at, debugMode, stopped, fileHandles, fileWriteOutput, front>>

\* the evaluator traces an operation; the trace is read when the run has ended
\* (App.handleRun), so the entries are added before a manager receives them
TraceOperation ==
    /\ manager.traceLog = <<>>
    /\ Len(traceLog) < MaxFrames
    /\ \E traced \in Traced, now \in Elapsed :
          /\ now >= lastElapsed
          /\ addEntry(traced.operation, 1, traced.data, now)
    /\ UNCHANGED <<manager, front, lastState>>
    /\ UNCHANGED framedVars

\* tracer.clear(): the tracer starts a new array, the manager keeps the entries it was given
ClearTrace ==
    /\ clear
    /\ manager' = [manager EXCEPT !.shared = FALSE]
    /\ UNCHANGED lastState
    /\ UNCHANGED framedVars

\* new MemoryStateManager(tracer.getTraceLog(), variables, maxCacheSize): getTraceLog
\* returns a new array of the same entry objects
NewManager ==
    /\ manager' = MemoryStateManager(traceLog, ManagerVariables, maxCacheSize)
    /\ lastState' = <<>>
    /\ UNCHANGED <<traceLog, stepCounter>>
    /\ UNCHANGED framedVars

\* manager.updateTraceLog(tracer.getTraceLog())
DoUpdateTraceLog ==
    /\ manager # NoManager
    /\ manager' = updateTraceLog(manager, traceLog)
    /\ lastState' = <<>>
    /\ UNCHANGED <<traceLog, stepCounter>>
    /\ UNCHANGED framedVars

\* manager.clearCache()
DoClearCache ==
    /\ manager # NoManager
    /\ manager.stateCache # EmptyMap
    /\ manager' = clearCache(manager)
    /\ UNCHANGED <<traceLog, stepCounter, lastState>>
    /\ UNCHANGED framedVars

\* manager.getStateAtFrame(frameNumber).  The entries of the manager's array are the
\* tracer's own objects while manager.shared, so what processOperation writes into
\* them shows in the tracer's log as well.
DoGetStateAtFrame ==
    /\ manager # NoManager
    /\ \E frameNumber \in FrameNumbers :
          LET result == getStateAtFrame(manager, frameNumber)
          IN  /\ manager' = result.manager
              /\ lastState' = <<[frameNumber |-> frameNumber, state |-> result.state]>>
              /\ traceLog' = IF manager.shared
                             THEN [k \in DOMAIN traceLog |->
                                      IF k \in DOMAIN result.manager.traceLog
                                      THEN result.manager.traceLog[k] ELSE traceLog[k]]
                             ELSE traceLog
    /\ UNCHANGED stepCounter
    /\ UNCHANGED framedVars

FramesNext ==
    \/ TraceOperation
    \/ ClearTrace
    \/ NewManager
    \/ DoUpdateTraceLog
    \/ DoClearCache
    \/ DoGetStateAtFrame

\* a run's trace, then a MemoryStateManager over it
SpecFrames == Init /\ [][FramesNext]_vars

\* C31: the trace log is append-only: a step never removes an entry of the log and
\* never changes a field of one, whichever tracer operation or consumer of the log
\* takes it, and a step that changes the log is an addEntry, which appends one entry.
C31_AppendOnly ==
    [][/\ Len(traceLog') >= Len(traceLog)
       /\ \A k \in DOMAIN traceLog : traceLog'[k] = traceLog[k]
       /\ traceLog' # traceLog =>
             /\ Len(traceLog') = Len(traceLog) + 1
             /\ stepCounter' = stepCounter + 1]_vars

\* the snapshot of frame frameNumber built without any cache: entries 0..frameNumber of
\* the manager's log applied to the empty state
Replayed(frameNumber) ==
    processOperations(manager.traceLog, emptyState(manager.variables), 0, frameNumber).state

\* C40: whatever frames were asked for before and whatever the cache holds or has
\* dropped, the snapshot getStateAtFrame(n) returns is the one that replaying entries
\* 0..n from the empty state gives; the snapshots kept in the cache are those too.
C40_CacheIsTransparent ==
    /\ lastState # <<>> => lastState[1].state = Replayed(lastState[1].frameNumber)
    /\ \A frameNumber \in DOMAIN manager.stateCache :
          manager.stateCache[frameNumber] = Replayed(frameNumber)

\* frame 1 of a two-entry log was returned with frame 0 in a full cache, and its
\* snapshot holds memory and an allocation
C40_Witness ==
    /\ lastState # <<>>
    /\ lastState[1].frameNumber = 1
    /\ Len(manager.traceLog) = 2
    /\ DOMAIN manager.stateCache = {0, 1}
    /\ Cardinality(DOMAIN manager.stateCache) >= manager.maxCacheSize
    /\ lastState[1].state.memoryState # EmptyMap
    /\ lastState[1].state.allocations # <<>>

(***************************************************************************)
(* tokenize (src/src/interpreter/lexer.ts) followed by Parser.parse.  A    *)
(* program text is a sequence of characters; front.i counts from 0, so the *)
(* character code[i] of the source is front.code[i + 1].                   *)
(***************************************************************************)
\* the character U+2190, the assignment arrow
LeftArrow == "U+2190"

\* the keywords of the lexer, each with its spelling
KEYWORDS ==
    {<<"DECLARE", <<"D", "E", "C", "L", "A", "R", "E">>>>,
     <<"CONSTANT", <<"C", "O", "N", "S", "T", "A", "N", "T">>>>,
     <<"IF", <<"I", "F">>>>,
     <<"THEN", <<"T", "H", "E", "N">>>>,
     <<"ELSE", <<"E", "L", "S", "E">>>>,
     <<"ENDIF", <<"E", "N", "D", "I", "F">>>>,
     <<"WHILE", <<"W", "H", "I", "L", "E">>>>,
     <<"DO", <<"D", "O">>>>,
     <<"ENDWHILE", <<"E", "N", "D", "W", "H", "I", "L", "E">>>>,
     <<"REPEAT", <<"R", "E", "P", "E", "A", "T">>>>,
     <<"UNTIL", <<"U", "N", "T", "I", "L">>>>,
     <<"FOR", <<"F", "O", "R">>>>,
     <<"TO", <<"T", "O">>>>,
     <<"STEP", <<"S", "T", "E", "P">>>>,
     <<"NEXT", <<"N", "E", "X", "T">>>>,
     <<"CASE", <<"C", "A", "S", "E">>>>,
     <<"OF", <<"O", "F">>>>,
     <<"OTHERWISE", <<"O", "T", "H", "E", "R", "W", "I", "S", "E">>>>,
     <<"ENDCASE", <<"E", "N", "D", "C", "A", "S", "E">>>>,
     <<"INTEGER", <<"I", "N", "T", "E", "G", "E", "R">>>>,
     <<"REAL", <<"R", "E", "A", "L">>>>,
     <<"STRING", <<"S", "T", "R", "I", "N", "G">>>>,
     <<"CHAR", <<"C", "H", "A", "R">>>>,
     <<"BOOLEAN", <<"B", "O", "O", "L", "E", "A", "N">>>>,
     <<"ARRAY", <<"A", "R", "R", "A", "Y">>>>,
     <<"INPUT", <<"I", "N", "P", "U", "T">>>>,
     <<"OUTPUT", <<"O", "U", "T", "P", "U", "T">>>>,
     <<"PROCEDURE", <<"P", "R", "O", "C", "E", "D", "U", "R", "E">>>>,
     <<"ENDPROCEDURE", <<"E", "N", "D", "P", "R", "O", "C", "E", "D", "U", "R", "E">>>>,
     <<"FUNCTION", <<"F", "U", "N", "C", "T", "I", "O", "N">>>>,
     <<"ENDFUNCTION", <<"E", "N", "D", "F", "U", "N", "C", "T", "I", "O", "N">>>>,
     <<"RETURN", <<"R", "E", "T", "U", "R", "N">>>>,
     <<"RETURNS", <<"R", "E", "T", "U", "R", "N", "S">>>>,
     <<"CALL", <<"C", "A", "L", "L">>>>,
     <<"BYVAL", <<"B", "Y", "V", "A", "L">>>>,
     <<"BYREF", <<"B", "Y", "R", "E", "F">>>>,
     <<"TRUE", <<"T", "R", "U", "E">>>>,
     <<"FALSE", <<"F", "A", "L", "S", "E">>>>,
     <<"AND", <<"A", "N", "D">>>>,
     <<"OR", <<"O", "R">>>>,
     <<"NOT", <<"N", "O", "T">>>>,
     <<"DIV", <<"D", "I", "V">>>>,
     <<"MOD", <<"M", "O", "D">>>>,
     <<"OPENFILE", <<"O", "P", "E", "N", "F", "I", "L", "E">>>>,
     <<"CLOSEFILE", <<"C", "L", "O", "S", "E", "F", "I", "L", "E">>>>,
     <<"READFILE", <<"R", "E", "A", "D", "F", "I", "L", "E">>>>,
     <<"WRITEFILE", <<"W", "R", "I", "T", "E", "F", "I", "L", "E">>>>,
     <<"EOF", <<"E", "O", "F">>>>,
     <<"READ", <<"R", "E", "A", "D">>>>,
     <<"WRITE", <<"W", "R", "I", "T", "E">>>>,
     <<"APPEND", <<"A", "P", "P", "E", "N", "D">>>>,
     <<"MALLOC", <<"M", "A", "L", "L", "O", "C">>>>,
     <<"FREE", <<"F", "R", "E", "E">>>>,
     <<"SIZE_OF", <<"S", "I", "Z", "E", "_", "O", "F">>>>,
     <<"POINTER_TO_INTEGER", <<"P", "O", "I", "N", "T", "E", "R", "_", "T", "O", "_", "I", "N", "T", "E", "G", "E", "R">>>>,
     <<"POINTER_TO_REAL", <<"P", "O", "I", "N", "T", "E", "R", "_", "T", "O", "_", "R", "E", "A", "L">>>>,
     <<"POINTER_TO_CHAR", <<"P", "O", "I", "N", "T", "E", "R", "_", "T", "O", "_", "C", "H", "A", "R">>>>,
     <<"VOID_POINTER", <<"V", "O", "I", "D", "_", "P", "O", "I", "N", "T", "E", "R">>>>}

\* /\d/
DigitCharacters == {DecimalDigits[d] : d \in DOMAIN DecimalDigits}

\* /[0-9a-fA-F]/
HexCharacters ==
    DigitCharacters \cup {HexLetters[d] : d \in DOMAIN HexLetters}
        \cup {UpperHexLetters[d] : d \in DOMAIN UpperHexLetters}

\* /[a-zA-Z_]/
LetterCharacters ==
    {"a", "b", "c", "d", "e", "f", "g", "h", "i", "j", "k", "l", "m", "n", "o", "p",
     "q", "r", "s", "t", "u", "v", "w", "x", "y", "z", "A", "B", "C", "D", "E", "F",
     "G", "H", "I", "J", "K", "L", "M", "N", "O", "P", "Q", "R", "S", "T", "U", "V",
     "W", "X", "Y", "Z", "_"}

\* '+-*/=<>&'
OperatorCharacters == {"+", "-", "*", "/", "=", "<", ">", "&"}

\* the token types of the punctuation characters
Punctuation ==
    {<<",", "COMMA">>, <<":", "COLON">>, <<"(", "LPAREN">>, <<")", "RPAREN">>,
     <<"[", "LBRACKET">>, <<"]", "RBRACKET">>}

\* code[i], undefined past the end of the text
charAt(code, i) == IF 0 <= i /\ i < Len(code) THEN code[i + 1] ELSE "undefined"

\* code.slice(from, to)
slice(code, from, to) == SubSeq(code, from + 1, to)

\* while (i < code.length && accepted(code[i])) i++
RECURSIVE whileIn(_, _, _)
whileIn(code, i, accepted) ==
    IF i < Len(code) /\ code[i + 1] \in accepted THEN whileIn(code, i + 1, accepted) ELSE i

\* while (i < code.length && code[i] is none of stops) i++
RECURSIVE whileNot(_, _, _)
whileNot(code, i, stops) ==
    IF i < Len(code) /\ code[i + 1] \notin stops THEN whileNot(code, i + 1, stops) ELSE i

\* throw new Error(`... at line ${line}, column ${column}`) of the lexer
LexError(l, message, column) ==
    [l EXCEPT !.stage = "error",
              !.thrown = <<[message |-> message, line |-> l.line, column |-> <<column>>]>>]

\* tokens.push({type, value, line, column}), then i and column go up by width
pushToken(l, type, value, column, width) ==
    [l EXCEPT !.tokens = Append(@, Token(type, value, l.line, column)),
              !.i = @ + width,
              !.column = @ + width]

\* a string or character literal: the text between the quotes
quoted(l, quote, message) ==
    LET close == whileNot(l.code, l.i + 1, {quote, "\n"})
    IN  IF close >= Len(l.code) \/ l.code[close + 1] = "\n"
        THEN LexError(l, message, l.column)
        ELSE pushToken(l, "STRING", slice(l.code, l.i + 1, close), l.column,
                       close + 1 - l.i)

\* one turn of the while loop of tokenize
tokenizeStep(l) ==
    LET code == l.code
        i == l.i
        char == charAt(code, i)
        next == charAt(code, i + 1)
    IN  IF char \in {" ", "\t", "\r"}
        THEN [l EXCEPT !.i = @ + 1, !.column = @ + 1]
        ELSE IF char = "\n"
        THEN [l EXCEPT !.tokens = Append(@, Token("NEWLINE", "\n", l.line, l.column)),
                       !.i = @ + 1, !.line = @ + 1, !.column = 1]
        ELSE IF char = "/" /\ next = "/"
        THEN LET end == whileNot(code, i + 2, {"\n"})
             IN  pushToken(l, "COMMENT", slice(code, i + 2, end), l.column + 2, end - i)
        ELSE IF char = "\"" THEN quoted(l, "\"", "Unterminated string")
        ELSE IF char = "'" THEN quoted(l, "'", "Unterminated character literal")
        ELSE IF char \in DigitCharacters
        THEN IF char = "0" /\ next \in {"x", "X"}
             THEN LET end == whileIn(code, i + 2, HexCharacters)
                  IN  IF end = i + 2 THEN LexError(l, "Invalid hex literal", l.column)
                      ELSE pushToken(l, "NUMBER", <<"0", "x">> \o slice(code, i + 2, end),
                                     l.column, end - i)
             ELSE LET end == whileIn(code, i, DigitCharacters \cup {"."})
                  IN  pushToken(l, "NUMBER", slice(code, i, end), l.column, end - i)
        ELSE IF char = LeftArrow THEN pushToken(l, "ASSIGNMENT", "<--", l.column, 1)
        ELSE IF char = "<" /\ next = "-" /\ charAt(code, i + 2) = "-"
        THEN pushToken(l, "ASSIGNMENT", "<--", l.column, 3)
        ELSE IF char = "<" /\ next = "=" THEN pushToken(l, "OPERATOR", "<=", l.column, 2)
        ELSE IF char = ">" /\ next = "=" THEN pushToken(l, "OPERATOR", ">=", l.column, 2)
        ELSE IF char = "<" /\ next = ">" THEN pushToken(l, "OPERATOR", "<>", l.column, 2)
        ELSE IF char \in OperatorCharacters THEN pushToken(l, "OPERATOR", char, l.column, 1)
        ELSE IF \E p \in Punctuation : p[1] = char
        THEN pushToken(l, (CHOOSE p \in Punctuation : p[1] = char)[2], char, l.column, 1)
        ELSE IF char \in LetterCharacters
        THEN LET end == whileIn(code, i, LetterCharacters \cup DigitCharacters)
                 identifier == slice(code, i, end)
             IN  IF \E k \in KEYWORDS : k[2] = identifier
                 THEN pushToken(l, "KEYWORD", (CHOOSE k \in KEYWORDS : k[2] = identifier)[1],
                                l.column, end - i)
                 ELSE pushToken(l, "IDENTIFIER", identifier, l.column, end - i)
        ELSE LexError(l, "Unexpected character", l.column)

\* longest program text
MaxCode == 4

\* the characters of the program texts
Alphabet == {"x", "1", LeftArrow, "*", "\n", "\"", "@", " "}

Codes == UNION {[1..n -> Alphabet] : n \in 0..MaxCode}

frontVars ==
    <<ram, allocated, allocations, nextFreeAddress, lastOp, holes,
      source, ast, pc, phase, error, variables,
      cells, contexts, frames, iterationCount, recursionDepth, callStack, yielded,
      executed, at, debugMode, stopped, fileHandles, fileWriteOutput, traceLog,
      stepCounter, manager, lastState>>

\* App.handleRun: tokenize(code) is called with the text of the editor
StartTokenize ==
    /\ front.stage = "idle"
    /\ \E code \in Codes : front' = [NoFront EXCEPT !.code = code, !.stage = "tokenize"]
    /\ UNCHANGED frontVars

\* tokenize: one turn of while (i < code.length)
Tokenize ==
    /\ front.stage = "tokenize"
    /\ front.i < Len(front.code)
    /\ front' = tokenizeStep(front)
    /\ UNCHANGED frontVars

\* tokenize: the loop has ended, the EOF token is added and the tokens are returned
TokenizeEnd ==
    /\ front.stage = "tokenize"
    /\ front.i >= Len(front.code)
    /\ front' = [front EXCEPT
                    !.tokens = Append(@, Token("EOF", "", front.line, front.column)),
                    !.stage = "parse"]
    /\ UNCHANGED frontVars

\* parse(tokens): the AST, or the Error thrown, whose message names a line
ParseTokens ==
    /\ front.stage = "parse"
    /\ LET r == parse(front.tokens)
       IN  front' = IF r.ok THEN [front EXCEPT !.stage = "done", !.ast = r.ast]
                    ELSE [front EXCEPT !.stage = "error",
                                       !.thrown = <<[message |-> r.msg, line |-> r.line,
                                                     column |-> <<>>]>>]
    /\ UNCHANGED frontVars

FrontNext == StartTokenize \/ Tokenize \/ TokenizeEnd \/ ParseTokens

\* a program text is tokenized and parsed
SpecFront == Init /\ [][FrontNext]_vars

\* the lines of a text: one more than its line feeds
lineCount(code) == 1 + Cardinality({k \in DOMAIN code : code[k] = "\n"})

\* the length of line number line of the text
lineLength(code, line) ==
    LET feeds == {k \in DOMAIN code : code[k] = "\n"}
        before == {k \in feeds : Cardinality({j \in feeds : j <= k}) = line - 1}
        start == IF line = 1 THEN 0 ELSE CHOOSE k \in before : TRUE
        later == {k \in feeds : k > start}
        end == IF later = {} THEN Len(code) + 1
               ELSE CHOOSE k \in later : \A j \in later : k <= j
    IN  end - start - 1

\* C32: tokenize followed by parse ends, on every text, with an AST or with a syntax
\* error that carries a line of the text and a column of that line (the place just
\* past its last character included); a text that has produced an error has no AST.
C32_AstOrLocatedError ==
    /\ front.stage = "done" => front.thrown = <<>>
    /\ front.stage = "error" =>
          /\ front.ast = <<>>
          /\ front.thrown # <<>>
          /\ front.thrown[1].line \in 1..lineCount(front.code)
          /\ front.thrown[1].column # <<>>
          /\ front.thrown[1].column[1] \in
                 1..(lineLength(front.code, front.thrown[1].line) + 1)

\* a line of the form *ptr <-- expr
IsDereferenceAssignment(line) ==
    /\ Len(line) > 3
    /\ line[1] = Tok("OPERATOR", "*")
    /\ line[2].type = "IDENTIFIER"
    /\ line[3].type = "ASSIGNMENT"

\* C33: a program with lines of the form *ptr <-- expr parses, each such line into an
\* Assignment node whose target is a Dereference node: the parse raises no syntax error
\* and the AST holds as many such nodes as the program has such lines.
C33_DereferenceTargetParses ==
    (/\ phase \notin {"idle", "parse"}
     /\ \E k \in DOMAIN source : IsDereferenceAssignment(source[k]))
    => /\ phase # "syntaxError"
       /\ Cardinality({k \in DOMAIN ast : /\ ast[k].type = "Assignment"
                                          /\ ast[k].target.type = "Dereference"})
          = Cardinality({k \in DOMAIN source : IsDereferenceAssignment(source[k])})

\* the next statement is OPENFILE "log" FOR APPEND, the statement before it was
\* CLOSEFILE "log", and the file closed had been opened FOR WRITE
ReopensClosedFile ==
    /\ AtStatement
    /\ ~Top.sync
    /\ WithinBudget
    /\ Node = OpenFile(Log, "APPEND")
    /\ Top.index > 1
    /\ Statements(Top)[Top.index - 1] = CloseFile(Log)
    /\ TheFile \in DOMAIN fileHandles
    /\ fileHandles[TheFile].mode = "WRITE"

\* C34: a file opened FOR WRITE and closed with CLOSEFILE is still stored, and
\* OPENFILE ... FOR APPEND reopens it: the statement raises no error, and the handle it
\* stores is in APPEND mode, holds the lines written before, and is positioned after
\* them, so that a later WRITEFILE adds its line after them.
C34_ReopenForAppend ==
    [][ReopensClosedFile =>
          /\ phase' = "run"
          /\ fileHandles'[TheFile] =
                 FileHandle("APPEND", fileHandles[TheFile].data,
                            Len(fileHandles[TheFile].data))]_vars

\* READFILE, WRITEFILE and CLOSEFILE of the file programs
FileAccesses ==
    {ReadFile(Log, Identifier("x")), WriteFile(Log, Identifier("x")), CloseFile(Log)}

\* the next statement of a file program is READFILE, WRITEFILE or CLOSEFILE of a file
\* that is not open: the statement before it was CLOSEFILE of that file, or no
\* statement before it is OPENFILE
AccessesFileNotOpen ==
    /\ ast \in FilePrograms
    /\ AtStatement
    /\ ~Top.sync
    /\ WithinBudget
    /\ Node \in FileAccesses
    /\ \/ Statements(Top)[Top.index - 1] = CloseFile(Log)
       \/ \A k \in 1..(Top.index - 1) : Statements(Top)[k].type # "OpenFile"

\* C35: READFILE, WRITEFILE and CLOSEFILE of a file that is not open, because it was
\* never opened or because CLOSEFILE closed it, end the run with the run-time error
\* "is not open" and leave every file buffer as it was.
C35_NotOpenRaises ==
    [][AccessesFileNotOpen =>
          /\ phase' = "runtimeError"
          /\ error' = "is not open"
          /\ fileHandles' = fileHandles]_vars

\* C36: Continue during a debug pause turns debugMode off and resolves the pending
\* step promise; from then on debugMode stays off and the step handler is never
\* awaited again, so the remaining statements run without a pause until the run ends.
C36_ContinueNeverPausesAgain ==
    [][/\ (at = "step" /\ debugMode /\ ~debugMode')
          => /\ at' = "switch"
             /\ phase' = "run"
             /\ ~stopped'
       /\ ~debugMode => /\ ~debugMode'
                        /\ at' # "step"]_vars

\* a run that paused at a statement after the first, was continued, and completed
C36_Witness ==
    /\ ast \in DebugPrograms
    /\ ~debugMode
    /\ callStack # <<>>
    /\ callStack[1].line # <<1>>
    /\ phase = "done"

\* C37: after any sequence of allocate and free calls nextFreeAddress is the larger of
\* 1024 and the highest end address of a live allocation, no slot at or above it is
\* allocated, and every successful allocate returns the nextFreeAddress it found.
C37_WatermarkIsHighestEnd ==
    [][/\ nextFreeAddress' >= 1024
       /\ \A a \in DOMAIN allocations' : a + allocations'[a].size <= nextFreeAddress'
       /\ \/ nextFreeAddress' = 1024
          \/ \E a \in DOMAIN allocations' : a + allocations'[a].size = nextFreeAddress'
       /\ \A a \in allocated' : a < nextFreeAddress'
       /\ (lastOp'.op = "allocate" /\ lastOp'.err = "none")
          => lastOp'.ret = nextFreeAddress]_vars

\* an allocate that succeeded after a block below a live one and the block at the top
\* were freed
C37_Witness ==
    /\ lastOp.op = "allocate"
    /\ lastOp.err = "none"
    /\ holes # {}
    /\ lastOp.ret \in holes
    /\ Cardinality(DOMAIN allocations) >= 1

\* the variable a name denotes in a context under the scoping rule: the one of the
\* context itself, else the global one, else none
ScopedVariable(name, context) ==
    IF name \in DOMAIN contexts[context] THEN contexts[context][name]
    ELSE IF name \in DOMAIN contexts[GlobalContext] THEN contexts[GlobalContext][name]
    ELSE NoVariable

\* the next step is RETURN name in a function body
ReturnsRead(name) ==
    /\ AtStatement /\ WithinBudget
    /\ Top.sync /\ Node = Return(Identifier(name))

\* C38: a procedure or function body resolves a name in its own local scope and then
\* in the global scope, never in the scope of its caller: OUTPUT name and RETURN name
\* read the local variable, else the global one, else fail with "not declared"; when a
\* call returns its local scope is dropped and the other scopes hold the names they
\* held, so a name the body declared is not declared for the code after the call.
C38_LocalThenGlobalScope ==
    [][/\ \A name \in {"y", "w"} :
             LET variable == ScopedVariable(name, Top.context)
             IN  /\ OutputsRead(Identifier(name))
                    => IF variable = NoVariable
                       THEN phase' = "runtimeError" /\ error' = "not declared"
                       ELSE IF ~cells[variable].initialized
                       THEN phase' = "runtimeError" /\ error' = "used before assignment"
                       ELSE /\ phase' = "run"
                            /\ yielded' = Append(yielded,
                                                 valueToString(cells[variable].value))
                 /\ ReturnsRead(name)
                    => IF variable = NoVariable
                       THEN phase' = "runtimeError" /\ error' = "not declared"
                       ELSE IF ~cells[variable].initialized
                       THEN phase' = "runtimeError" /\ error' = "used before assignment"
                       ELSE LET call == frames[InnermostFunction].call
                                target == Resolve(ast, call.pending).target.name
                            IN  /\ phase' = "run"
                                /\ cells'[ScopedVariable(target, call.context)].value
                                       = cells[variable].value
       /\ (phase' = "run" /\ Len(contexts') < Len(contexts))
          => contexts' = SubSeq(contexts, 1, Len(contexts) - 1)]_vars

\* Outer, holding y = 2, called Inner, which read the global y = 1; Outer printed its
\* w; the OUTPUT w after the call found no w
C38_Witness ==
    /\ ast \in ScopePrograms
    /\ phase = "runtimeError"
    /\ error = "not declared"
    /\ Len(yielded) = 2
    /\ yielded[1] = Digits(Scale)

\* the value of a global variable, in units of 1/Scale
GlobalValue(name) == cells[contexts[GlobalContext][name]].value.v

\* C39: for all integers a and b with b other than 0, negative ones included, the
\* results of a DIV b and a MOD b satisfy (a DIV b) * b + (a MOD b) = a.
C39_DivModIdentity ==
    (ast \in DivModPrograms /\ phase = "done")
    => LET a == evaluateExpressionIn(Machine, ast[3].value.left, GlobalContext).value.v
           b == evaluateExpressionIn(Machine, ast[3].value.right, GlobalContext).value.v
       IN  (GlobalValue("q") \div Scale) * b + GlobalValue("r") = a

====
